---- MODULE Spec2Model ----
(***************************************************************************)
(* NumaPerf: the shadow maps, the page record and the access hot path.     *)
(*                                                                         *)
(* Threads run the operations of the source one memory access at a time:   *)
(* every plain load, plain store and compare-and-set of the code is one    *)
(* step, in program order, so a data race shows as an interleaving (a torn *)
(* value, a lost update).                                                  *)
(***************************************************************************)
EXTENDS Integers, Sequences, FiniteSets, TLC

(* ------------------------------ bounds -------------------------------- *)
NThreads == 2
MaxOps == 2
MaxRetry == 2
MaxCount == 3
MaxDiags == 3
MaxTotal == 1
\* the details offered to the diagnosis whose queue is watched
MaxOffers == 4
\* the pass: instructions of a function
MaxInsns == 4
\* the pass: the per-block cap on collected instructions (10000 in the source)
ClMaxInsnsToInstrumentPerBB == 2
\* the shadow scale of the address mapping
kDefaultShadowScale == 3
\* the threads of a pool, and the calls of tpool_create
MaxPoolThreads == 2
MaxCreates == 2

(* ----------------------------- constants ------------------------------ *)
NOT_INSERT == 0
INSERTING == 1
INSERTED == 2
PAGE_SIZE == 4096
CACHE_LINE_SIZE == 64
\* scaled down: the second write to a cache line escalates it
CACHE_SHARING_DETAIL_THRESHOLD == 1
\* scaled down: the second access by another thread flags the page
PAGE_SHARING_DETAIL_THRESHOLD == 1

Threads == 1 .. NThreads
\* automicIncrease: the retry budgets, deltas and starting values the calls use
Retries == -1 .. MaxRetry
Deltas == {-1, 1, 2}
InitTargets == {0}
\* pointers: a mapping's address is a positive number
NULL == 0
MAP_FAILED == -1
\* the callers of MM::mmapAllocatePrivate and the shutdownTHP they pass
MMCallers == {"single.initialize", "createFragment", "hash.initialize"}
\* what automicIncrease returns when its budget is exhausted
Sentinel == -1
NoThread == 0
\* the addresses the threads use: two cache lines of one page
Addrs == {0, 64}
MapKinds == {"multi", "single"}
AccessTypes == {"E_ACCESS_READ", "E_ACCESS_WRITE"}

(* ------------------------ address arithmetic -------------------------- *)
getPageIndex(addr) == addr \div PAGE_SIZE
getCacheIndexInsidePage(addr) == (addr % PAGE_SIZE) \div CACHE_LINE_SIZE
Pages == {getPageIndex(a) : a \in Addrs}
Lines == {getCacheIndexInsidePage(a) : a \in Addrs}

(* ------------------------------ values -------------------------------- *)
\* a constructor that drops the thread id it is given
PageBasicAccessInfo_noId(tid) ==
    [ftid |-> 0, other |-> 0, clw |-> [l \in Lines |-> 0]]
\* PageBasicAccessInfo(firstTouchThreadId): the counters start at zero
PageBasicAccessInfo(tid) ==
    [ftid |-> tid, other |-> 0, clw |-> [l \in Lines |-> 0]]
\* freshly mapped (or memset) shadow memory
ZeroValue == [ftid |-> 0, other |-> 0, clw |-> [l \in Lines |-> 0]]
\* a record whose counters have all reached n: the values the map-level
\* callers pass, so that a half-copied record shows
InfoValue(n) == [ftid |-> n, other |-> n, clw |-> [l \in Lines |-> n]]
\* a cache line's detail record as constructed on escalation
CacheLineDetail ==
    [lastWriter |-> NoThread, invFirst |-> 0, invOther |-> 0, mask |-> {},
     writes |-> [t \in Threads |-> 0], reads |-> [t \in Threads |-> 0]]

(* --------------------------- the diagnoses ---------------------------- *)
\* the buffers of the diagnosis pool
DiagIds == 1 .. MaxDiags
\* the address of the ObjectInfo a diagnosis is made for, and the address of
\* one that was released earlier
ObjPtrs == {1}
StalePtrs == {2}
\* the cache-line details inserted: their invalidation numbers in the first
\* thread and in the others, and the accesses of the line by the page's
\* first-touch thread and by the others
Detail(first, other, accessFirst, accessOther) ==
    [first |-> first, other |-> other,
     accessFirst |-> accessFirst, accessOther |-> accessOther]
Details == {Detail(1, 0, 1, 2), Detail(0, 1, 2, 1), Detail(1, 1, 2, 2)}
\* a collection of details: how many of each kind it holds
NoDetails == [d \in Details |-> 0]
\* a buffer of the pool no diagnosis was constructed in; offered (history):
\* the details passed to insertCacheLineDetailedInfo; ret: what the last
\* insertCacheLineDetailedInfo returned
NoDiag == [objectInfo |-> NULL, passed |-> NULL,
           allInvalidNumInMainThread |-> -1, allInvalidNumInOtherThreads |-> -1,
           allAccessNumInMainThread |-> -1, allAccessNumInOtherThread |-> -1,
           topCacheLineDetailQueue |-> NoDetails,
           offered |-> NoDetails, ret |-> "none"]
NoCmp == [a |-> 0, b |-> 0, lt |-> FALSE, gt |-> FALSE, ge |-> FALSE, eq |-> FALSE]

(* ------------------------ the side-by-side maps ----------------------- *)
\* fragmentMappingBitNum of the multi-fragment map: a fragment maps two pages
PairBitNum == 13
PairMappingSize == 8192
\* the addresses both maps support: two in one page, a second page of the
\* same fragment, a page of the next fragment
PairAddrs == {0, 8, PAGE_SIZE, 2 * PAGE_SIZE}
PairPages == {getPageIndex(a) : a \in PairAddrs}
PairFrags == {a \div PairMappingSize : a \in PairAddrs}
\* the slots of the multi-fragment map: <<fragment index, index in the fragment>>
PairSlots == PairFrags \X (0 .. (PairMappingSize \div PAGE_SIZE) - 1)
\* the values stored, and 0 for zeroed memory
PairValues == {1, 2}
EmptyMulti == [startAddress |-> [f \in PairFrags |-> NULL],
               tag |-> [sl \in PairSlots |-> NOT_INSERT],
               val |-> [sl \in PairSlots |-> 0]]
EmptySingle == [tag |-> [p \in PairPages |-> NOT_INSERT],
                val |-> [p \in PairPages |-> 0]]
NoResult == [op |-> "none", key |-> 0, value |-> 0,
             multi |-> [ret |-> "none"], single |-> [ret |-> "none"]]

(* ------------------------------ the pass ------------------------------ *)
NoScan == [at |-> "off", bb |-> 0, ix |-> 0, NumInsnsPerBB |-> 0, next |-> 0]
NoFunction == [name |-> "", blocks |-> <<>>]

(* ---------------------------- the geometry ---------------------------- *)
NoGeo == [initialized |-> FALSE, request |-> 0, valueSize |-> 0,
          needAlignToCacheLine |-> FALSE, fragmentSize |-> 0, blockSize |-> 0,
          fragmentMappingBitNum |-> 0]
NoSlot == [key |-> -1, fragmentIndex |-> -1, offset |-> -1]

VARIABLES
    mapKind,   \* which template is under test: "multi" or "single" fragment
    frag,      \* multi: startAddress[fragmentIndex] # NULL
    lock,      \* multi: holder of the spinlock of createFragment, or NoThread
    tag,       \* tag[p]: the 16-bit metadata of page p's slot
    val,       \* val[p]: the value bytes of page p's slot
    dtag,      \* dtag[l]: the tag of cache line l's detail slot
    det,       \* det[l]: cache line l's detail record
    pc,        \* pc[t]: where thread t stands
    arg,       \* arg[t]: the call t runs: [hook, op, key, v, type, late]
    rv,        \* rv[t]: what t's last map operation returned
    seen,      \* seen[t]: how the record looked that t read through find's pointer
    ftidRead,  \* ftidRead[t]: the first-touch id t last read from the record
    tmp,       \* tmp[t]: the counter value t loaded for its increment
    prev,      \* prev[t]: the last writer t's compare-and-set replaced
    ops,       \* ops[t]: calls t has started
    winners,   \* history: <<t, v, late>> of each insertIfAbsent that returned true
    firstStarter, \* history: firstStarter[p], the first thread to begin a call on p
    crosser,   \* history: crosser[l] = <<t, n>>, whose n-th call first took
               \* line l's write counter over the threshold
    isInserted, \* registry: isInserted[i], the flag of slot i
    regValue,  \* registry: regValue[i], the ObjectInfo of slot i
    diags,     \* the diagnoses recorded, in order: [addr, site]
    allocated, \* allocated[a]: the allocator has handed a out
    nFreed,    \* history: nFreed[a], frees of a returned that freed a live object
    overlap,   \* history: overlap[a], two hooks on a have run at once
    writeLog,  \* history: writeLog[l], <<replaced writer, writer>> of each
               \* compare-and-set on line l's last writer, in order
    nMaps,     \* history: the mappings createFragment has made
    findSaw,   \* history: findSaw[t], what t's last find read: "unmapped" or
               \* the name of the slot's tag
    target,    \* automicIncrease: *targetValue
    target0,   \* history: the value of *targetValue at the start
    expect,    \* expect[t]: expect_value of t's running call
    tries,     \* tries[t]: compare-and-swaps t's running call has lost (the
               \* loop counter i of the bounded loop)
    incArg,    \* incArg[t]: [delta, retry] of t's call
    incRet,    \* incRet[t]: what t's last call returned
    won,       \* history: won[t], the compare-and-swap of t's call succeeded
    applied,   \* history: the sum of the deltas of the calls that succeeded
    process,   \* "running", or how the host process ended: "abort" (failed
               \* assertion), "fault" (invalid memory access), "exit" (exit(-1))
    stray,     \* memory outside the shadow mapping has been written
    mmArg,     \* MM::allocate: mmArg[t] = [caller, shutdownTHP] of t's call
    mmPtr,     \* mmPtr[t]: ptr, what mmap returned to t
    madvResult, \* madvResult[t]: result, what madvise returned to t
    nMapped,   \* the mappings mmap has made; a mapping's address is its number
    nDiag,     \* the diagnostics printed on stderr
    starts,    \* the <<caller, address>> the shadow maps stored as start addresses
    flagInfo,  \* the page record the threshold tests are asked about
    flagPage,  \* what needPageSharingDetailInfo answered, or "none"
    flagLine,  \* flagLine[l]: what needCacheLineSharingDetailInfo answered for l
    dg,        \* dg[i]: the i-th DiagnoseObjInfo of the pool, or NoDiag
    scoreW,    \* the weights of Scores::getScoreForCacheInvalid
    cmp,       \* what the last comparison of two diagnoses answered
    pm,        \* side by side: the multi-fragment map [frag, tag, val]
    ps,        \* side by side: the single-fragment map [tag, val]
    pr,        \* side by side: the last operation and what each map returned
    fn,        \* the pass: the function, [name, blocks]: its basic blocks in order
    scan,      \* the pass: where instrumentFunction stands
    ToInstrument, \* the pass: the instructions collected, as <<block, index>>
    hooked,    \* the pass: the instructions a hook call was inserted before
    calls,     \* the pass: the calls inserted, in the order of insertion
    geo,       \* the multi-fragment map's geometry: the arguments of
               \* initialize and the fields it computed
    gslot,     \* the slot getDataBlock computed for the last address asked
    pool,      \* the thread pool: [state, nthreads, threads], or NoPool
    thr,       \* the threads of the process: what has become of each
    heap,      \* the thread pool: the blocks malloc returned, not yet freed
    created,   \* the last tpool_create: its arguments and what it did
    hist       \* the calls made since and with the last tpool_create

slotVars == <<mapKind, frag, lock, tag, val>>
detVars == <<dtag, det>>
localVars == <<pc, arg, rv, seen, ftidRead, tmp, prev, ops>>
histVars == <<winners, firstStarter, crosser>>
regVars == <<isInserted, regValue, diags, allocated, nFreed, overlap>>
ghostVars == <<writeLog, nMaps, findSaw>>
\* the state of the parts modelled further down
incVars == <<target, target0, expect, tries, incArg, incRet, won, applied>>
procVars == <<process, stray>>
mmVars == <<mmArg, mmPtr, madvResult, nMapped, nDiag, starts>>
flagVars == <<flagInfo, flagPage, flagLine>>
dgVars == <<dg, scoreW, cmp>>
pairVars == <<pm, ps, pr>>
passVars == <<fn, scan, ToInstrument, hooked, calls>>
geoVars == <<geo, gslot>>
poolVars == <<pool, thr, heap, created, hist>>
lateVars == <<dgVars, pairVars, passVars, geoVars, poolVars>>
restVars == <<incVars, procVars, mmVars, flagVars, lateVars>>
\* everything but the parts modelled last
earlyVars == <<slotVars, detVars, localVars, histVars, regVars, ghostVars,
               incVars, procVars, mmVars, flagVars>>
otherVars == <<ghostVars, restVars>>
vars == <<slotVars, detVars, localVars, histVars, regVars, otherVars>>

NoArg == [hook |-> "none", op |-> "none", key |-> 0, v |-> 0,
          type |-> "none", late |-> FALSE]
NoCrosser == <<NoThread, 0>>
\* the thread pool: the pthread_t values pthread_create can hand out
ThreadIds == 1 .. (MaxCreates * MaxPoolThreads)
NoPool == [state |-> "none", nthreads |-> 0, threads |-> <<>>]
NoCreate == [calls |-> 0, opts |-> "none", nthreads |-> 0, nullRoutineAt |-> 0,
             ret |-> "none", started |-> {}, allocated |-> {}]

(* --------------------------- the registry ----------------------------- *)
CallSites == {1, 2}
\* the hash function the registry is initialised with: one slot per object
hashFuncPtr(key) == key \div CACHE_LINE_SIZE
hashKey(key) == hashFuncPtr(key)
Slots == {hashKey(a) : a \in Addrs}
ObjectInfo(addr, site) == [start |-> addr, site |-> site]
NoObject == [start |-> 0, site |-> 0]

\* the n-th call of thread t has returned
Returned(t, n) == ops[t] > n \/ (ops[t] = n /\ pc[t] = "idle")
SomeReturned == \E t \in Threads : Returned(t, 1)
Quiescent == \A t \in Threads : pc[t] = "idle"

(* ------------------------ the supported range ------------------------- *)
\* scaled down: one fragment, holding the slots of two pages
MAX_FRAGMENTS == 1
PagesPerFragment == 2
\* key >> fragmentMappingBitNum
fragmentIndex(key) == key \div (PagesPerFragment * PAGE_SIZE)
\* the first address past the last fragment
FarAddrs == {MAX_FRAGMENTS * PagesPerFragment * PAGE_SIZE}
\* the key has a slot: multi, its fragment index is below MAX_FRAGMENTS;
\* single, its slot's offset is below fragmentSize
InRange(key) == fragmentIndex(key) < MAX_FRAGMENTS

(* --------------------------- getDataBlock ----------------------------- *)
\* multi: NULL while the fragment is not mapped; single: never NULL
getDataBlock(key) == mapKind = "single" \/ frag

(* ------------------- where a map operation returns to ----------------- *)
\* the caller's next step, given the operation that returned and its result
AfterReturn(a, r) ==
    CASE a.hook = "map" -> IF r = "ptr" THEN "use" ELSE "idle"
      [] a.hook = "first_touch" -> "idle"
      [] a.hook = "access" /\ a.op \in {"find", "find2"} /\ r = "ptr" -> "rec_ftid"
      [] a.hook = "access" /\ a.op = "find" /\ r = "null" -> "iia_get"
      [] a.hook = "access" /\ a.op = "insertIfAbsent" -> "find"
      [] OTHER -> "idle"

\* the map operation the caller runs next
NextOp(a, r) ==
    CASE a.hook = "access" /\ a.op = "find" /\ r = "null" -> "insertIfAbsent"
      [] a.hook = "access" /\ a.op = "insertIfAbsent" -> "find2"
      [] OTHER -> a.op

Goto(t, l) == pc' = [pc EXCEPT ![t] = l]
\* the host process ends, and every thread with it
Ends(how) ==
    /\ process' = how
    /\ pc' = [u \in Threads |-> "dead"]
Return(t, r) ==
    /\ rv' = [rv EXCEPT ![t] = r]
    /\ pc' = [pc EXCEPT ![t] = AfterReturn(arg[t], r)]
    /\ arg' = [arg EXCEPT ![t].op = NextOp(arg[t], r)]

InitGhost ==
    /\ writeLog = [l \in Lines |-> <<>>]
    /\ nMaps = 0
    /\ findSaw = [t \in Threads |-> "none"]

\* the counter before any automicIncrease, and no call made
InitInc ==
    /\ target \in InitTargets
    /\ target0 = target
    /\ expect = [t \in Threads |-> 0]
    /\ tries = [t \in Threads |-> 0]
    /\ incArg = [t \in Threads |-> [delta |-> 0, retry |-> 0]]
    /\ incRet = [t \in Threads |-> 0]
    /\ won = [t \in Threads |-> FALSE]
    /\ applied = 0

\* the host process runs and nothing has been written out of place
InitProc ==
    /\ process = "running"
    /\ stray = FALSE

\* nothing mapped yet
InitMM ==
    /\ mmArg = [t \in Threads |-> [caller |-> "none", shutdownTHP |-> FALSE]]
    /\ mmPtr = [t \in Threads |-> NULL]
    /\ madvResult = [t \in Threads |-> 0]
    /\ nMapped = 0
    /\ nDiag = 0
    /\ starts = {}

\* no threshold test asked
InitFlag ==
    /\ flagInfo = ZeroValue
    /\ flagPage = "none"
    /\ flagLine = [l \in Lines |-> "none"]

\* no diagnosis made, and a score that adds the two totals
InitDg ==
    /\ dg = [i \in DiagIds |-> NoDiag]
    /\ scoreW = <<1, 1>>
    /\ cmp = NoCmp

\* the two maps of the side-by-side run, initialized and empty
InitPair ==
    /\ pm = EmptyMulti
    /\ ps = EmptySingle
    /\ pr = NoResult

\* the pass has no function at hand
InitPass ==
    /\ fn = NoFunction
    /\ scan = NoScan
    /\ ToInstrument = <<>>
    /\ hooked = {}
    /\ calls = <<>>

\* no thread pool has been created
InitPool ==
    /\ pool = NoPool
    /\ thr = [id \in ThreadIds |-> "none"]
    /\ heap = {}
    /\ created = NoCreate
    /\ hist = <<>>

\* initialize has not been called
InitGeo ==
    /\ geo = NoGeo
    /\ gslot = NoSlot

InitLate == InitDg /\ InitPair /\ InitPass /\ InitGeo /\ InitPool
InitEarly == InitGhost /\ InitInc /\ InitProc /\ InitMM /\ InitFlag
InitOther == InitEarly /\ InitLate

\* no page has a record
InitNoRecords ==
    /\ tag = [p \in Pages |-> NOT_INSERT]
    /\ val = [p \in Pages |-> ZeroValue]

\* no detail, no object, no call made
InitCore ==
    /\ lock = NoThread
    /\ dtag = [l \in Lines |-> NOT_INSERT]
    /\ det = [l \in Lines |-> CacheLineDetail]
    /\ pc = [t \in Threads |-> "idle"]
    /\ arg = [t \in Threads |-> NoArg]
    /\ rv = [t \in Threads |-> "none"]
    /\ seen = [t \in Threads |-> "none"]
    /\ ftidRead = [t \in Threads |-> NoThread]
    /\ tmp = [t \in Threads |-> 0]
    /\ prev = [t \in Threads |-> NoThread]
    /\ ops = [t \in Threads |-> 0]
    /\ winners = <<>>
    /\ firstStarter = [p \in Pages |-> NoThread]
    /\ crosser = [l \in Lines |-> NoCrosser]
    /\ isInserted = [i \in Slots |-> FALSE]
    /\ regValue = [i \in Slots |-> NoObject]
    /\ diags = <<>>
    /\ allocated = [a \in Addrs |-> FALSE]
    /\ nFreed = [a \in Addrs |-> 0]
    /\ overlap = [a \in Addrs |-> FALSE]

InitCommon == InitOther /\ InitNoRecords /\ InitCore

\* a map of either template, initialized and empty
InitMap ==
    /\ mapKind \in MapKinds
    /\ frag = (mapKind = "single")
    /\ InitCommon

(* ------------------------------ calls --------------------------------- *)
HeapHooks == {"malloc", "free"}
\* one of the threads of T is inside on_malloc or on_free of the object at addr
InHeapHook(T, addr) ==
    \E u \in T : pc[u] # "idle" /\ arg[u].hook \in HeapHooks /\ arg[u].key = addr

Call(t, hook, op, key, v, type, first) ==
    /\ pc[t] = "idle"
    /\ ops[t] < MaxOps
    /\ ops' = [ops EXCEPT ![t] = @ + 1]
    /\ arg' = [arg EXCEPT ![t] = [hook |-> hook, op |-> op, key |-> key, v |-> v,
                                  type |-> type, late |-> SomeReturned]]
    /\ rv' = [rv EXCEPT ![t] = "none"]
    /\ seen' = [seen EXCEPT ![t] = "none"]
    /\ firstStarter' = [firstStarter EXCEPT ![getPageIndex(key)] =
                            IF @ = NoThread THEN t ELSE @]
    /\ allocated' = IF hook = "malloc" THEN [allocated EXCEPT ![key] = TRUE]
                    ELSE allocated
    /\ overlap' = IF hook \in HeapHooks /\ InHeapHook(Threads \ {t}, key)
                  THEN [overlap EXCEPT ![key] = TRUE] ELSE overlap
    /\ findSaw' = [findSaw EXCEPT ![t] = "none"]
    /\ Goto(t, first)
    /\ UNCHANGED <<writeLog, nMaps, restVars, slotVars, detVars, ftidRead, tmp, prev>>
    /\ UNCHANGED <<winners, crosser>>
    /\ UNCHANGED <<isInserted, regValue, diags, nFreed>>

CallInsertIfAbsent(t) ==
    \E key \in Addrs, v \in Threads :
        Call(t, "map", "insertIfAbsent", key, v, "none", "iia_get")
CallInsert(t) ==
    \E key \in Addrs, v \in Threads :
        Call(t, "map", "insert", key, v, "none", "ins_get")
CallFind(t) == \E key \in Addrs : Call(t, "map", "find", key, 0, "none", "find")
CallRemove(t) == \E key \in Addrs : Call(t, "map", "remove", key, 0, "none", "remove")

(* -------------------------- createFragment ---------------------------- *)
CfLock(t) ==
    /\ pc[t] = "cf_lock"
    /\ lock = NoThread
    /\ lock' = t
    /\ Goto(t, "cf_map")
    /\ UNCHANGED <<otherVars, regVars, mapKind, frag, tag, val, detVars, histVars>>
    /\ UNCHANGED <<arg, rv, seen, ftidRead, tmp, prev, ops>>

\* a createFragment that maps without looking
stillNull_always(f) == TRUE
\* the check under the lock: startAddress[fragmentIndex] is still NULL
stillNull(f) == ~f

\* the check under the lock, and the mmap of zeroed memory when still NULL
CfMap(t) ==
    /\ pc[t] = "cf_map"
    /\ frag' = (IF stillNull(frag) THEN TRUE ELSE frag)
    /\ nMaps' = IF stillNull(frag) THEN nMaps + 1 ELSE nMaps
    /\ Goto(t, "cf_unlock")
    /\ UNCHANGED <<writeLog, findSaw, restVars, regVars, mapKind, lock, tag, val, detVars, histVars>>
    /\ UNCHANGED <<arg, rv, seen, ftidRead, tmp, prev, ops>>

CfUnlock(t) ==
    /\ pc[t] = "cf_unlock"
    /\ lock' = NoThread
    /\ Goto(t, IF arg[t].op = "insertIfAbsent" THEN "iia_cas" ELSE "ins_ftid")
    /\ UNCHANGED <<otherVars, regVars, mapKind, frag, tag, val, detVars, histVars>>
    /\ UNCHANGED <<arg, rv, seen, ftidRead, tmp, prev, ops>>

(* --------------------------- compare_set ------------------------------ *)
\* a compare-and-set that never fails
compare_set_always(value, expectValue) == TRUE
\* Automics::compare_set: whether the exchange happens
compare_set(value, expectValue) == value = expectValue

(* -------------------------- insertIfAbsent ---------------------------- *)
IiaGet(t) ==
    /\ pc[t] = "iia_get"
    /\ Goto(t, IF getDataBlock(arg[t].key) THEN "iia_cas" ELSE "cf_lock")
    /\ UNCHANGED <<otherVars, regVars, slotVars, detVars, histVars>>
    /\ UNCHANGED <<arg, rv, seen, ftidRead, tmp, prev, ops>>

IiaCas(t) ==
    LET p == getPageIndex(arg[t].key) IN
    /\ pc[t] = "iia_cas"
    /\ IF compare_set(tag[p], NOT_INSERT)
          THEN /\ tag' = [tag EXCEPT ![p] = INSERTING]
               /\ Goto(t, "iia_ftid")
          ELSE /\ tag' = tag
               /\ Goto(t, "iia_wait")
    /\ UNCHANGED <<otherVars, regVars, mapKind, frag, lock, val, detVars, histVars>>
    /\ UNCHANGED <<arg, rv, seen, ftidRead, tmp, prev, ops>>

\* a loser that returns without waiting
waitOver_always(metaData) == TRUE
\* while (*metaData != INSERTED): the condition that ends the loop
waitOver(metaData) == metaData = INSERTED

\* the busy wait: the loop is left once the tag reads INSERTED
IiaWait(t) ==
    LET p == getPageIndex(arg[t].key) IN
    /\ pc[t] = "iia_wait"
    /\ waitOver(tag[p])
    /\ Return(t, "false")
    /\ UNCHANGED <<otherVars, regVars, slotVars, detVars, histVars>>
    /\ UNCHANGED <<seen, ftidRead, tmp, prev, ops>>

\* the value the call of thread t stores
ValueOf(a) == IF a.hook = "map" THEN InfoValue(a.v) ELSE PageBasicAccessInfo(a.v)

\* the copy constructor, field by field
CtorFtid(t, from, to) ==
    LET p == getPageIndex(arg[t].key) IN
    /\ pc[t] = from
    /\ val' = [val EXCEPT ![p].ftid = ValueOf(arg[t]).ftid]
    /\ Goto(t, to)
    /\ UNCHANGED <<otherVars, regVars, mapKind, frag, lock, tag, detVars, histVars>>
    /\ UNCHANGED <<arg, rv, seen, ftidRead, tmp, prev, ops>>

CtorOther(t, from, to) ==
    LET p == getPageIndex(arg[t].key) IN
    /\ pc[t] = from
    /\ val' = [val EXCEPT ![p].other = ValueOf(arg[t]).other]
    /\ Goto(t, to)
    /\ UNCHANGED <<otherVars, regVars, mapKind, frag, lock, tag, detVars, histVars>>
    /\ UNCHANGED <<arg, rv, seen, ftidRead, tmp, prev, ops>>

CtorClw(t, from, to) ==
    LET p == getPageIndex(arg[t].key) IN
    /\ pc[t] = from
    /\ val' = [val EXCEPT ![p].clw = ValueOf(arg[t]).clw]
    /\ Goto(t, to)
    /\ UNCHANGED <<otherVars, regVars, mapKind, frag, lock, tag, detVars, histVars>>
    /\ UNCHANGED <<arg, rv, seen, ftidRead, tmp, prev, ops>>

IiaCtor(t) ==
    \/ CtorFtid(t, "iia_ftid", "iia_other")
    \/ CtorOther(t, "iia_other", "iia_clw")
    \/ CtorClw(t, "iia_clw", "iia_pub")

IiaPublish(t) ==
    LET p == getPageIndex(arg[t].key) IN
    /\ pc[t] = "iia_pub"
    /\ tag' = [tag EXCEPT ![p] = INSERTED]
    /\ winners' = Append(winners, <<t, arg[t].v, arg[t].late>>)
    /\ Return(t, "true")
    /\ UNCHANGED <<otherVars, regVars, mapKind, frag, lock, val, detVars, firstStarter, crosser>>
    /\ UNCHANGED <<seen, ftidRead, tmp, prev, ops>>

(* ------------------------------ insert -------------------------------- *)
InsGet(t) ==
    /\ pc[t] = "ins_get"
    /\ Goto(t, IF getDataBlock(arg[t].key) THEN "ins_ftid" ELSE "cf_lock")
    /\ UNCHANGED <<otherVars, regVars, slotVars, detVars, histVars>>
    /\ UNCHANGED <<arg, rv, seen, ftidRead, tmp, prev, ops>>

InsCtor(t) ==
    \/ CtorFtid(t, "ins_ftid", "ins_other")
    \/ CtorOther(t, "ins_other", "ins_clw")
    \/ CtorClw(t, "ins_clw", "ins_pub")

InsPublish(t) ==
    LET p == getPageIndex(arg[t].key) IN
    /\ pc[t] = "ins_pub"
    /\ tag' = [tag EXCEPT ![p] = INSERTED]
    /\ Return(t, "inserted")
    /\ UNCHANGED <<otherVars, regVars, mapKind, frag, lock, val, detVars, histVars>>
    /\ UNCHANGED <<seen, ftidRead, tmp, prev, ops>>

(* ------------------------------- find --------------------------------- *)
\* a find that trusts a slot under construction
FindResult_trusting(key) ==
    IF ~getDataBlock(key) THEN "null"
    ELSE IF tag[getPageIndex(key)] = NOT_INSERT THEN "null"
    ELSE "ptr"
\* what find returns in the current state
FindResult(key) ==
    IF ~getDataBlock(key) THEN "null"
    ELSE IF tag[getPageIndex(key)] # INSERTED THEN "null"
    ELSE "ptr"

\* the names of the tag's values
TagName(x) ==
    CASE x = NOT_INSERT -> "NOT_INSERT"
      [] x = INSERTING -> "INSERTING"
      [] x = INSERTED -> "INSERTED"

Find(t) ==
    /\ pc[t] = "find"
    /\ Return(t, FindResult(arg[t].key))
    /\ findSaw' = [findSaw EXCEPT ![t] =
                      IF ~getDataBlock(arg[t].key) THEN "unmapped"
                      ELSE TagName(tag[getPageIndex(arg[t].key)])]
    /\ UNCHANGED <<writeLog, nMaps, restVars, regVars, slotVars, detVars, histVars>>
    /\ UNCHANGED <<seen, ftidRead, tmp, prev, ops>>

\* how a record read through a pointer looks, when the callers store only
\* InfoValue(n), n >= 1
Look(v) ==
    IF v = ZeroValue THEN "zero"
    ELSE IF v.ftid # 0 /\ v = InfoValue(v.ftid) THEN "whole"
    ELSE "torn"

\* the caller of find reads the record through the pointer it was given
Use(t) ==
    LET p == getPageIndex(arg[t].key) IN
    /\ pc[t] = "use"
    /\ seen' = [seen EXCEPT ![t] = Look(val[p])]
    /\ Goto(t, "idle")
    /\ UNCHANGED <<otherVars, regVars, slotVars, detVars, histVars>>
    /\ UNCHANGED <<arg, rv, ftidRead, tmp, prev, ops>>

(* ------------------------------ remove -------------------------------- *)
\* multi: the tag alone is reset, and nothing happens without a fragment
RemoveMulti(t) ==
    LET p == getPageIndex(arg[t].key) IN
    /\ pc[t] = "remove"
    /\ mapKind = "multi"
    /\ tag' = IF getDataBlock(arg[t].key)
                 THEN [tag EXCEPT ![p] = NOT_INSERT] ELSE tag
    /\ Return(t, "removed")
    /\ UNCHANGED <<otherVars, regVars, mapKind, frag, lock, val, detVars, histVars>>
    /\ UNCHANGED <<seen, ftidRead, tmp, prev, ops>>

\* single: memset(dataBlock, 0, blockSize) clears the tag and the value; the
\* order in which memset writes the bytes is not fixed
RemoveSingle(t) ==
    LET p == getPageIndex(arg[t].key) IN
    /\ mapKind = "single"
    /\ \/ /\ pc[t] = "remove"
          /\ tag' = [tag EXCEPT ![p] = NOT_INSERT]
          /\ val' = val
          /\ Goto(t, "rm_val")
          /\ UNCHANGED <<rv, arg>>
       \/ /\ pc[t] = "remove"
          /\ val' = [val EXCEPT ![p] = ZeroValue]
          /\ tag' = tag
          /\ Goto(t, "rm_tag")
          /\ UNCHANGED <<rv, arg>>
       \/ /\ pc[t] = "rm_val"
          /\ val' = [val EXCEPT ![p] = ZeroValue]
          /\ tag' = tag
          /\ Return(t, "removed")
       \/ /\ pc[t] = "rm_tag"
          /\ tag' = [tag EXCEPT ![p] = NOT_INSERT]
          /\ val' = val
          /\ Return(t, "removed")
    /\ UNCHANGED <<otherVars, regVars, mapKind, frag, lock, detVars, histVars>>
    /\ UNCHANGED <<seen, ftidRead, tmp, prev, ops>>

(* ----------------------- the map specifications ----------------------- *)
InsertIfAbsent(t) ==
    \/ IiaGet(t) \/ IiaCas(t) \/ IiaWait(t) \/ IiaCtor(t) \/ IiaPublish(t)
CreateFragment(t) == CfLock(t) \/ CfMap(t) \/ CfUnlock(t)
Insert(t) == InsGet(t) \/ InsCtor(t) \/ InsPublish(t)
Remove(t) == RemoveMulti(t) \/ RemoveSingle(t)

\* concurrent insertIfAbsent calls alone
NextIfAbsent ==
    \E t \in Threads :
        CallInsertIfAbsent(t) \/ InsertIfAbsent(t) \/ CreateFragment(t)

SpecIfAbsent == InitMap /\ [][NextIfAbsent]_vars

\* any interleaving of the four operations of the map
NextMap ==
    \E t \in Threads :
        \/ CallInsertIfAbsent(t) \/ CallInsert(t) \/ CallFind(t) \/ CallRemove(t)
        \/ InsertIfAbsent(t) \/ CreateFragment(t) \/ Insert(t)
        \/ Find(t) \/ Use(t) \/ Remove(t)

SpecMap == InitMap /\ [][NextMap]_vars

\* the hot path's use of the map: insert if absent, then look up
NextLookup ==
    \E t \in Threads :
        \/ CallInsertIfAbsent(t) \/ CallFind(t)
        \/ InsertIfAbsent(t) \/ CreateFragment(t) \/ Find(t) \/ Use(t)

SpecLookup == InitMap /\ [][NextLookup]_vars

\* the operations that write a slot: insertIfAbsent, insert and remove
NextWait ==
    \E t \in Threads :
        \/ CallInsertIfAbsent(t) \/ CallInsert(t) \/ CallRemove(t)
        \/ InsertIfAbsent(t) \/ CreateFragment(t) \/ Insert(t) \/ Remove(t)

SpecWait == InitMap /\ [][NextWait]_vars

\* a thread inside an operation keeps being scheduled; whether a thread makes
\* another call is up to the program
FairSpecWait ==
    SpecWait /\ \A t \in Threads :
        WF_vars(InsertIfAbsent(t) \/ CreateFragment(t) \/ Insert(t) \/ Remove(t))

(* ======================== the access hot path ========================= *)
\* the per-page shadow is the single-fragment map, mapped at initialization
InitAccess ==
    /\ mapKind = "single"
    /\ frag = TRUE
    /\ InitCommon

\* on_access(addr, type) by thread t: find the page record, or insert one
\* naming t as the first-touch thread and look it up again
CallAccess(t) ==
    \E addr \in Addrs, type \in AccessTypes :
        Call(t, "access", "find", addr, t, type, "find")

\* on_first_touch(addr, t): set the page's first-touch thread if it is unset
CallFirstTouch(t) ==
    \E p \in Pages :
        Call(t, "first_touch", "insertIfAbsent", p * PAGE_SIZE, t, "none", "iia_get")

(* ------------------------ PageBasicAccessInfo ------------------------- *)
\* recordAccessForPageSharing counts the access
countsAsOther(info, accessThreadId) == info.ftid # accessThreadId
\* recordAccessForCacheSharing counts the access
countsAsWrite(type) == type = "E_ACCESS_WRITE"
needPageSharingDetailInfo(info) == info.other > PAGE_SHARING_DETAIL_THRESHOLD
\* a test that flags the line at the threshold already
needCacheLineSharingDetailInfo_atLeast(info, addr) ==
    info.clw[getCacheIndexInsidePage(addr)] >= CACHE_SHARING_DETAIL_THRESHOLD
needCacheLineSharingDetailInfo(info, addr) ==
    info.clw[getCacheIndexInsidePage(addr)] > CACHE_SHARING_DETAIL_THRESHOLD

AfterPageSharing(a) == IF countsAsWrite(a.type) THEN "rec_clw_ld" ELSE "need"

\* recordAccessForPageSharing: the comparison with firstTouchThreadId
RecFtid(t) ==
    LET p == getPageIndex(arg[t].key) IN
    /\ pc[t] = "rec_ftid"
    /\ ftidRead' = [ftidRead EXCEPT ![t] = val[p].ftid]
    /\ Goto(t, IF countsAsOther(val[p], t) THEN "rec_other_ld"
               ELSE AfterPageSharing(arg[t]))
    /\ UNCHANGED <<otherVars, regVars, slotVars, detVars, histVars, arg, rv, seen, tmp, prev, ops>>

\* accessNumberByOtherThreads++ : the load
RecOtherLoad(t) ==
    LET p == getPageIndex(arg[t].key) IN
    /\ pc[t] = "rec_other_ld"
    /\ tmp' = [tmp EXCEPT ![t] = val[p].other]
    /\ Goto(t, "rec_other_st")
    /\ UNCHANGED <<otherVars, regVars, slotVars, detVars, histVars, arg, rv, seen, ftidRead, prev, ops>>

\* accessNumberByOtherThreads++ : the store
RecOtherStore(t) ==
    LET p == getPageIndex(arg[t].key) IN
    /\ pc[t] = "rec_other_st"
    /\ val' = [val EXCEPT ![p].other = tmp[t] + 1]
    /\ Goto(t, AfterPageSharing(arg[t]))
    /\ UNCHANGED <<otherVars, regVars, mapKind, frag, lock, tag, detVars, histVars>>
    /\ UNCHANGED <<arg, rv, seen, ftidRead, tmp, prev, ops>>

\* cacheLineWritingNumber[k]++ : the load
RecClwLoad(t) ==
    LET p == getPageIndex(arg[t].key)
        l == getCacheIndexInsidePage(arg[t].key) IN
    /\ pc[t] = "rec_clw_ld"
    /\ tmp' = [tmp EXCEPT ![t] = val[p].clw[l]]
    /\ Goto(t, "rec_clw_st")
    /\ UNCHANGED <<otherVars, regVars, slotVars, detVars, histVars, arg, rv, seen, ftidRead, prev, ops>>

\* cacheLineWritingNumber[k]++ : the store
RecClwStore(t) ==
    LET p == getPageIndex(arg[t].key)
        l == getCacheIndexInsidePage(arg[t].key) IN
    /\ pc[t] = "rec_clw_st"
    /\ val' = [val EXCEPT ![p].clw[l] = tmp[t] + 1]
    /\ crosser' = [crosser EXCEPT ![l] =
                       IF @ = NoCrosser /\ needCacheLineSharingDetailInfo(val'[p], arg[t].key)
                       THEN <<t, ops[t]>> ELSE @]
    /\ Goto(t, "need")
    /\ UNCHANGED <<otherVars, regVars, mapKind, frag, lock, tag, detVars, winners, firstStarter>>
    /\ UNCHANGED <<arg, rv, seen, ftidRead, tmp, prev, ops>>

\* exit unless the line's write counter is over the threshold
Need(t) ==
    LET p == getPageIndex(arg[t].key) IN
    /\ pc[t] = "need"
    /\ Goto(t, IF needCacheLineSharingDetailInfo(val[p], arg[t].key)
               THEN "det_cas" ELSE "idle")
    /\ UNCHANGED <<otherVars, regVars, slotVars, detVars, histVars>>
    /\ UNCHANGED <<arg, rv, seen, ftidRead, tmp, prev, ops>>

(* ------------------------- the detail record -------------------------- *)
Protocol(a) == IF countsAsWrite(a.type) THEN "w_cas" ELSE "r_upd"

\* insert-if-absent of the line's detail: the compare-and-set on its tag
DetCas(t) ==
    LET l == getCacheIndexInsidePage(arg[t].key) IN
    /\ pc[t] = "det_cas"
    /\ IF compare_set(dtag[l], NOT_INSERT)
          THEN /\ dtag' = [dtag EXCEPT ![l] = INSERTING]
               /\ Goto(t, "det_ctor")
          ELSE /\ dtag' = dtag
               /\ Goto(t, "det_wait")
    /\ UNCHANGED <<otherVars, regVars, slotVars, det, histVars>>
    /\ UNCHANGED <<arg, rv, seen, ftidRead, tmp, prev, ops>>

DetCtor(t) ==
    LET l == getCacheIndexInsidePage(arg[t].key) IN
    /\ pc[t] = "det_ctor"
    /\ det' = [det EXCEPT ![l] = CacheLineDetail]
    /\ Goto(t, "det_pub")
    /\ UNCHANGED <<otherVars, regVars, slotVars, dtag, histVars>>
    /\ UNCHANGED <<arg, rv, seen, ftidRead, tmp, prev, ops>>

DetPublish(t) ==
    LET l == getCacheIndexInsidePage(arg[t].key) IN
    /\ pc[t] = "det_pub"
    /\ dtag' = [dtag EXCEPT ![l] = INSERTED]
    /\ Goto(t, Protocol(arg[t]))
    /\ UNCHANGED <<otherVars, regVars, slotVars, det, histVars>>
    /\ UNCHANGED <<arg, rv, seen, ftidRead, tmp, prev, ops>>

DetWait(t) ==
    LET l == getCacheIndexInsidePage(arg[t].key) IN
    /\ pc[t] = "det_wait"
    /\ dtag[l] = INSERTED
    /\ Goto(t, Protocol(arg[t]))
    /\ UNCHANGED <<otherVars, regVars, slotVars, detVars, histVars>>
    /\ UNCHANGED <<arg, rv, seen, ftidRead, tmp, prev, ops>>

\* a write by t: the compare-and-set that reads last_writer_thread_id and
\* replaces it by t
WriteCas(t) ==
    LET l == getCacheIndexInsidePage(arg[t].key) IN
    /\ pc[t] = "w_cas"
    /\ prev' = [prev EXCEPT ![t] = det[l].lastWriter]
    /\ det' = [det EXCEPT ![l].lastWriter = t]
    /\ writeLog' = [writeLog EXCEPT ![l] = Append(@, <<det[l].lastWriter, t>>)]
    /\ Goto(t, "w_upd")
    /\ UNCHANGED <<nMaps, findSaw, restVars, regVars, slotVars, dtag, histVars>>
    /\ UNCHANGED <<arg, rv, seen, ftidRead, tmp, ops>>

\* a write that charges nothing
WriteCharge_never(d, prevWriter, t, ftid) == d
\* a charge that ignores who touched the page first
WriteCharge_toOther(d, prevWriter, t, ftid) ==
    IF prevWriter = t THEN d ELSE [d EXCEPT !.invOther = @ + 1]
\* the invalidation a write by t charges, given the writer it replaced
WriteCharge(d, prevWriter, t, ftid) ==
    IF prevWriter = t THEN d
    ELSE IF prevWriter = ftid THEN [d EXCEPT !.invFirst = @ + 1]
    ELSE [d EXCEPT !.invOther = @ + 1]

\* the bookkeeping of a write by t
WriteCount(d, t) == [d EXCEPT !.mask = @ \cup {t}, !.writes[t] = @ + 1]

WriteUpdate(t) ==
    LET p == getPageIndex(arg[t].key)
        l == getCacheIndexInsidePage(arg[t].key) IN
    /\ pc[t] = "w_upd"
    /\ det' = [det EXCEPT ![l] =
                  WriteCount(WriteCharge(det[l], prev[t], t, val[p].ftid), t)]
    /\ Goto(t, "idle")
    /\ UNCHANGED <<otherVars, regVars, slotVars, dtag, histVars>>
    /\ UNCHANGED <<arg, rv, seen, ftidRead, tmp, prev, ops>>

\* a charge that does not spare a thread's first read
ReadCharge_everyRead(d, t, ftid) ==
    IF d.lastWriter = t THEN d
    ELSE IF t = ftid THEN [d EXCEPT !.invFirst = @ + 1]
    ELSE [d EXCEPT !.invOther = @ + 1]
\* the invalidation a read by t charges: none on t's first read of the line,
\* none when t is the last writer, else one to the counter of t's side
ReadCharge(d, t, ftid) ==
    IF d.reads[t] = 0 \/ d.lastWriter = t THEN d
    ELSE IF t = ftid THEN [d EXCEPT !.invFirst = @ + 1]
    ELSE [d EXCEPT !.invOther = @ + 1]

\* the bookkeeping of a read by t
ReadCount(d, t) == [d EXCEPT !.mask = @ \cup {t}, !.reads[t] = @ + 1]

ReadUpdate(t) ==
    LET p == getPageIndex(arg[t].key)
        l == getCacheIndexInsidePage(arg[t].key) IN
    /\ pc[t] = "r_upd"
    /\ det' = [det EXCEPT ![l] =
                  ReadCount(ReadCharge(det[l], t, val[p].ftid), t)]
    /\ Goto(t, "idle")
    /\ UNCHANGED <<otherVars, regVars, slotVars, dtag, histVars>>
    /\ UNCHANGED <<arg, rv, seen, ftidRead, tmp, prev, ops>>

RecordAccess(t) ==
    \/ RecFtid(t) \/ RecOtherLoad(t) \/ RecOtherStore(t)
    \/ RecClwLoad(t) \/ RecClwStore(t) \/ Need(t)
Escalate(t) == DetCas(t) \/ DetCtor(t) \/ DetPublish(t) \/ DetWait(t)
DetailProtocol(t) == WriteCas(t) \/ WriteUpdate(t) \/ ReadUpdate(t)

\* any interleaving of accesses and first-touch events
NextAccess ==
    \E t \in Threads :
        \/ CallAccess(t) \/ CallFirstTouch(t)
        \/ Find(t) \/ InsertIfAbsent(t)
        \/ RecordAccess(t) \/ Escalate(t) \/ DetailProtocol(t)

SpecAccess == InitAccess /\ [][NextAccess]_vars

(* ================== object lifecycle: malloc and free ================= *)
InitFree ==
    /\ mapKind = "single"
    /\ frag = TRUE
    /\ InitCommon

\* on_malloc(addr, size, call_site), after the allocator returned addr: an
\* address the allocator has not handed out
CallMalloc(t) ==
    \E addr \in Addrs, site \in CallSites :
        /\ ~allocated[addr]
        /\ Call(t, "malloc", "insert", addr, site, "none", "m_value")

\* on_free(addr), before the real free: any address, freed already or not
CallFree(t) ==
    \E addr \in Addrs :
        Call(t, "free", "find", addr, 0,
             IF allocated[addr] THEN "first" ELSE "again", "f_find")

\* ShadowHashMap::insert: the value is stored, then the flag
MallocValue(t) ==
    LET i == hashKey(arg[t].key) IN
    /\ pc[t] = "m_value"
    /\ regValue' = [regValue EXCEPT ![i] = ObjectInfo(arg[t].key, arg[t].v)]
    /\ Goto(t, "m_flag")
    /\ UNCHANGED <<otherVars, slotVars, detVars, histVars>>
    /\ UNCHANGED <<isInserted, diags, allocated, nFreed, overlap>>
    /\ UNCHANGED <<arg, rv, seen, ftidRead, tmp, prev, ops>>

MallocFlag(t) ==
    LET i == hashKey(arg[t].key) IN
    /\ pc[t] = "m_flag"
    /\ isInserted' = [isInserted EXCEPT ![i] = TRUE]
    /\ Goto(t, "idle")
    /\ UNCHANGED <<otherVars, slotVars, detVars, histVars>>
    /\ UNCHANGED <<regValue, diags, allocated, nFreed, overlap>>
    /\ UNCHANGED <<arg, rv, seen, ftidRead, tmp, prev, ops>>

\* a lookup that does not test the flag
hashFind_noCheck(i) == "ptr"
\* ShadowHashMap::find: NULL unless the slot's flag is set
hashFind(i) == IF ~isInserted[i] THEN "null" ELSE "ptr"

\* the free that returns: the allocator takes the object back
FreeReturns(t) ==
    /\ allocated' = [allocated EXCEPT ![arg[t].key] = FALSE]
    /\ nFreed' = [nFreed EXCEPT ![arg[t].key] =
                      IF arg[t].type = "first" THEN @ + 1 ELSE @]

\* the lookup by base address; a free of an unknown object is ignored
FreeFind(t) ==
    LET r == hashFind(hashKey(arg[t].key)) IN
    /\ pc[t] = "f_find"
    /\ rv' = [rv EXCEPT ![t] = r]
    /\ IF r = "ptr"
          THEN Goto(t, "f_diag") /\ UNCHANGED <<allocated, nFreed>>
          ELSE Goto(t, "idle") /\ FreeReturns(t)
    /\ UNCHANGED <<otherVars, slotVars, detVars, histVars>>
    /\ UNCHANGED <<isInserted, regValue, diags, overlap>>
    /\ UNCHANGED <<arg, seen, ftidRead, tmp, prev, ops>>

\* the diagnosis is made and pushed to the queue of the object's call site
FreeDiagnose(t) ==
    LET i == hashKey(arg[t].key) IN
    /\ pc[t] = "f_diag"
    /\ diags' = Append(diags, [addr |-> arg[t].key, site |-> regValue[i].site])
    /\ Goto(t, "f_unreg")
    /\ UNCHANGED <<otherVars, slotVars, detVars, histVars>>
    /\ UNCHANGED <<isInserted, regValue, allocated, nFreed, overlap>>
    /\ UNCHANGED <<arg, rv, seen, ftidRead, tmp, prev, ops>>

\* a free that removes the record of the object's page
shadowAfterFree_removed(tags, addr) ==
    [tags EXCEPT ![getPageIndex(addr)] = NOT_INSERT]
\* the page shadow after the free of the object at addr: it is not zeroed
shadowAfterFree(tags, addr) == tags

\* the object is unregistered; the shadow records are left as they are
FreeUnregister(t) ==
    LET i == hashKey(arg[t].key) IN
    /\ pc[t] = "f_unreg"
    /\ isInserted' = [isInserted EXCEPT ![i] = FALSE]
    /\ tag' = shadowAfterFree(tag, arg[t].key)
    /\ Goto(t, "idle")
    /\ FreeReturns(t)
    /\ UNCHANGED <<otherVars, mapKind, frag, lock, val, detVars, histVars>>
    /\ UNCHANGED <<regValue, diags, overlap>>
    /\ UNCHANGED <<arg, rv, seen, ftidRead, tmp, prev, ops>>

OnMalloc(t) == MallocValue(t) \/ MallocFlag(t)
OnFree(t) == FreeFind(t) \/ FreeDiagnose(t) \/ FreeUnregister(t)

\* any interleaving of allocations and frees
NextFree ==
    \E t \in Threads : CallMalloc(t) \/ CallFree(t) \/ OnMalloc(t) \/ OnFree(t)

SpecFree == InitFree /\ [][NextFree]_vars

(* ========================== the hash-keyed table ====================== *)
\* the keys of the table: the addresses, and a second one that the hash
\* function sends to the slot of the first
HashKeys == Addrs \cup {8}

CallHashInsertIfAbsent(t) ==
    \E key \in HashKeys, site \in CallSites :
        Call(t, "hash", "insertIfAbsent", key, site, "none", "h_cas")
CallHashInsert(t) ==
    \E key \in HashKeys, site \in CallSites :
        Call(t, "hash", "insert", key, site, "none", "m_value")
CallHashFind(t) ==
    \E key \in HashKeys : Call(t, "hash", "find", key, 0, "none", "h_find")

\* ShadowHashMap::insertIfAbsent: the compare-and-set of the flag from false
\* to true; the call that loses it returns false at once
HashCas(t) ==
    LET i == hashKey(arg[t].key) IN
    /\ pc[t] = "h_cas"
    /\ IF compare_set(isInserted[i], FALSE)
          THEN /\ isInserted' = [isInserted EXCEPT ![i] = TRUE]
               /\ Goto(t, "h_value")
               /\ UNCHANGED rv
          ELSE /\ rv' = [rv EXCEPT ![t] = "false"]
               /\ Goto(t, "idle")
               /\ UNCHANGED isInserted
    /\ UNCHANGED <<otherVars, slotVars, detVars, histVars>>
    /\ UNCHANGED <<regValue, diags, allocated, nFreed, overlap>>
    /\ UNCHANGED <<arg, seen, ftidRead, tmp, prev, ops>>

\* ShadowHashMap::insertIfAbsent: *valuePtr = value, and the return of true
HashValue(t) ==
    LET i == hashKey(arg[t].key) IN
    /\ pc[t] = "h_value"
    /\ regValue' = [regValue EXCEPT ![i] = ObjectInfo(arg[t].key, arg[t].v)]
    /\ rv' = [rv EXCEPT ![t] = "true"]
    /\ Goto(t, "idle")
    /\ UNCHANGED <<otherVars, slotVars, detVars, histVars>>
    /\ UNCHANGED <<isInserted, diags, allocated, nFreed, overlap>>
    /\ UNCHANGED <<arg, seen, ftidRead, tmp, prev, ops>>

\* ShadowHashMap::find
HashFind(t) ==
    LET r == hashFind(hashKey(arg[t].key)) IN
    /\ pc[t] = "h_find"
    /\ rv' = [rv EXCEPT ![t] = r]
    /\ Goto(t, IF r = "ptr" THEN "h_use" ELSE "idle")
    /\ UNCHANGED <<otherVars, slotVars, detVars, histVars, regVars>>
    /\ UNCHANGED <<arg, seen, ftidRead, tmp, prev, ops>>

\* the caller of find reads the value through the pointer it was given: the
\* zeroed memory of the mapping, or a value that was stored
HashUse(t) ==
    LET i == hashKey(arg[t].key) IN
    /\ pc[t] = "h_use"
    /\ seen' = [seen EXCEPT ![t] = IF regValue[i] = NoObject THEN "zero" ELSE "whole"]
    /\ Goto(t, "idle")
    /\ UNCHANGED <<otherVars, slotVars, detVars, histVars, regVars>>
    /\ UNCHANGED <<arg, rv, ftidRead, tmp, prev, ops>>

HashInsertIfAbsent(t) == HashCas(t) \/ HashValue(t)
HashInsert(t) == MallocValue(t) \/ MallocFlag(t)

\* any interleaving of the three operations of the table
NextHash ==
    \E t \in Threads :
        \/ CallHashInsertIfAbsent(t) \/ CallHashInsert(t) \/ CallHashFind(t)
        \/ HashInsertIfAbsent(t) \/ HashInsert(t) \/ HashFind(t) \/ HashUse(t)

SpecHash == InitFree /\ [][NextHash]_vars

\* the life of a page: accesses to it, and allocations and frees of the
\* objects that lie on it
NextLife ==
    \E t \in Threads :
        \/ CallAccess(t) \/ CallMalloc(t) \/ CallFree(t)
        \/ Find(t) \/ InsertIfAbsent(t)
        \/ RecordAccess(t) \/ Escalate(t) \/ DetailProtocol(t)
        \/ OnMalloc(t) \/ OnFree(t)

SpecLife == InitAccess /\ [][NextLife]_vars

(* ===================== Automics::automicIncrease ====================== *)
\* the counter is a long; the values these runs reach are far from its ends
InitIncrease ==
    /\ mapKind = "single"
    /\ frag = TRUE
    /\ InitCommon

\* the frame of automicIncrease: everything but the counter and the call
IncFrame ==
    /\ UNCHANGED <<ghostVars, procVars, mmVars, flagVars, slotVars, detVars, histVars>>
    /\ UNCHANGED <<regVars, lateVars>>
    /\ UNCHANGED <<arg, rv, seen, ftidRead, tmp, prev, target0>>

\* automicIncrease(targetValue, increaseNumber, retry_num) is called
CallIncrease(t) ==
    \E delta \in Deltas, retry \in Retries :
        /\ pc[t] = "idle"
        /\ ops[t] < MaxOps
        /\ ops' = [ops EXCEPT ![t] = @ + 1]
        /\ incArg' = [incArg EXCEPT ![t] = [delta |-> delta, retry |-> retry]]
        /\ tries' = [tries EXCEPT ![t] = 0]
        /\ won' = [won EXCEPT ![t] = FALSE]
        /\ Goto(t, "inc_loop")
        /\ UNCHANGED <<target, expect, incRet, applied>>
        /\ IncFrame

\* a bounded loop that makes one round too many
IncMore_oneMore(a, i) == a.retry < 0 \/ i <= a.retry
\* a loop that is bounded whatever retry_num is
IncMore_bounded(a, i) == i < a.retry
\* the loop goes on: while (1), or i < retry_num
IncMore(a, i) == a.retry < 0 \/ i < a.retry

\* expect_value = *targetValue
IncLoad(t) ==
    /\ pc[t] = "inc_loop"
    /\ IncMore(incArg[t], tries[t])
    /\ expect' = [expect EXCEPT ![t] = target]
    /\ Goto(t, "inc_cas")
    /\ UNCHANGED <<target, tries, incArg, incRet, won, applied, ops>>
    /\ IncFrame

\* a compare-and-swap that never fails
atomic_compare_exchange_n_always(value, expected) == TRUE
\* __atomic_compare_exchange_n succeeds when the target holds the expected value
atomic_compare_exchange_n(value, expected) == value = expected

\* the compare-and-swap to expect_value + increaseNumber; on success the call
\* returns that sum, on failure it goes round the loop
IncCas(t) ==
    LET sum == expect[t] + incArg[t].delta IN
    /\ pc[t] = "inc_cas"
    /\ IF atomic_compare_exchange_n(target, expect[t])
          THEN /\ target' = sum
               /\ incRet' = [incRet EXCEPT ![t] = sum]
               /\ won' = [won EXCEPT ![t] = TRUE]
               /\ applied' = applied + incArg[t].delta
               /\ Goto(t, "idle")
               /\ UNCHANGED tries
          ELSE /\ tries' = [tries EXCEPT ![t] = @ + 1]
               /\ Goto(t, "inc_loop")
               /\ UNCHANGED <<target, incRet, won, applied>>
    /\ UNCHANGED <<expect, incArg, ops>>
    /\ IncFrame

\* the bounded loop is over: return -1
IncExhausted(t) ==
    /\ pc[t] = "inc_loop"
    /\ ~IncMore(incArg[t], tries[t])
    /\ incRet' = [incRet EXCEPT ![t] = Sentinel]
    /\ Goto(t, "idle")
    /\ UNCHANGED <<target, expect, tries, incArg, won, applied, ops>>
    /\ IncFrame

automicIncrease(t) == IncLoad(t) \/ IncCas(t) \/ IncExhausted(t)

\* concurrent calls on one target
NextIncrease == \E t \in Threads : CallIncrease(t) \/ automicIncrease(t)

SpecIncrease == InitIncrease /\ [][NextIncrease]_vars

\* the scheduler lets every thread that can take a step take one in the end
FairSpecIncrease ==
    SpecIncrease /\ \A t \in Threads : WF_vars(automicIncrease(t))

(* ============================= LockInfo =============================== *)
\* One LockInfo, its threadsAcquire the target of automicIncrease, zeroed by
\* the constructor. A thread calls acquireLock before it takes the lock and
\* releaseLock when it gives it up, in turn.
InitLock ==
    /\ InitIncrease
    /\ target = 0

\* the calls thread t has completed, and whether its last one was an acquire
LockCalls(t) == IF pc[t] = "idle" THEN ops[t] ELSE ops[t] - 1
Acquired(t) == LockCalls(t) % 2 = 1

\* the call of automicIncrease<long>(&threadsAcquire, increaseNumber, -1)
CallLock(t, increaseNumber) ==
    /\ pc[t] = "idle"
    /\ ops[t] < MaxOps
    /\ ops' = [ops EXCEPT ![t] = @ + 1]
    /\ incArg' = [incArg EXCEPT ![t] = [delta |-> increaseNumber, retry |-> -1]]
    /\ tries' = [tries EXCEPT ![t] = 0]
    /\ won' = [won EXCEPT ![t] = FALSE]
    /\ Goto(t, "inc_loop")
    /\ UNCHANGED <<target, expect, incRet, applied>>
    /\ IncFrame

acquireLock(t) == ~Acquired(t) /\ CallLock(t, 1)
releaseLock(t) == Acquired(t) /\ CallLock(t, -1)

\* a test for one thread or more
hasContention_atLeastOne(threadsAcquire) == threadsAcquire >= 1
\* hasContention(): threadsAcquire > 1
hasContention(threadsAcquire) == threadsAcquire > 1

NextLock ==
    \E t \in Threads : acquireLock(t) \/ releaseLock(t) \/ IncLoad(t) \/ IncCas(t)

SpecLock == InitLock /\ [][NextLock]_vars

(* ================== addresses outside the supported range ============= *)
\* everything an out-of-range call leaves alone but the thread and the process
FarFrame ==
    /\ UNCHANGED <<ghostVars, incVars, mmVars, flagVars, slotVars, detVars>>
    /\ UNCHANGED <<histVars, regVars, lateVars, ftidRead, tmp, prev>>

\* insertIfAbsent or insert is called with an address past the last fragment
CallFar(t) ==
    \E key \in FarAddrs, v \in Threads, op \in {"insertIfAbsent", "insert"} :
        /\ pc[t] = "idle"
        /\ ops[t] < MaxOps
        /\ ops' = [ops EXCEPT ![t] = @ + 1]
        /\ arg' = [arg EXCEPT ![t] = [hook |-> "map", op |-> op, key |-> key,
                                      v |-> v, type |-> "none", late |-> SomeReturned]]
        /\ rv' = [rv EXCEPT ![t] = "none"]
        /\ seen' = [seen EXCEPT ![t] = "none"]
        /\ Goto(t, "far_get")
        /\ UNCHANGED procVars
        /\ FarFrame

\* getDataBlock: multi, NULL for a fragment index >= MAX_FRAGMENTS, and the
\* caller goes to createFragment; single, startAddress + offset, unchecked
FarGet(t) ==
    /\ pc[t] = "far_get"
    /\ Goto(t, IF mapKind = "multi" THEN "far_lock" ELSE "far_write")
    /\ UNCHANGED <<procVars, arg, rv, seen, ops>>
    /\ FarFrame

\* createFragment: lock.lock()
FarLock(t) ==
    /\ pc[t] = "far_lock"
    /\ lock = NoThread
    /\ lock' = t
    /\ Goto(t, "far_assert")
    /\ UNCHANGED <<ghostVars, incVars, mmVars, flagVars, mapKind, frag, tag, val, detVars>>
    /\ UNCHANGED <<histVars, lateVars>>
    /\ UNCHANGED <<regVars, procVars, arg, rv, seen, ftidRead, tmp, prev, ops>>

\* createFragment: the assertion fragmentIndex < MAX_FRAGMENTS fails with the
\* lock held. Either it ends the process, or the call goes on to index
\* startAddress out of bounds and to use the NULL data block, which faults
FarAssert(t) ==
    /\ pc[t] = "far_assert"
    /\ \E how \in {"abort", "fault"} : Ends(how)
    /\ UNCHANGED <<stray, arg, rv, seen, ops>>
    /\ FarFrame

\* single: the compare-and-set and the construction at an address past the
\* mapping: a fault where nothing is mapped there, else foreign memory is
\* overwritten and the call returns as if it had inserted
FarWrite(t) ==
    /\ pc[t] = "far_write"
    /\ \/ /\ Ends("fault")
          /\ UNCHANGED <<stray, rv>>
       \/ /\ stray' = TRUE
          /\ rv' = [rv EXCEPT ![t] = "true"]
          /\ Goto(t, "idle")
          /\ UNCHANGED process
    /\ UNCHANGED <<arg, seen, ops>>
    /\ FarFrame

OutOfRange(t) == FarGet(t) \/ FarLock(t) \/ FarAssert(t) \/ FarWrite(t)

\* insert and insertIfAbsent calls with addresses in and out of range
NextRange ==
    \E t \in Threads :
        \/ CallInsertIfAbsent(t) \/ CallInsert(t) \/ CallFar(t)
        \/ InsertIfAbsent(t) \/ CreateFragment(t) \/ Insert(t)
        \/ OutOfRange(t)

SpecRange == InitMap /\ [][NextRange]_vars

(* ============================ MM::allocate ============================ *)
InitAllocate ==
    /\ mapKind = "single"
    /\ frag = TRUE
    /\ InitCommon

\* everything MM::allocate and its callers leave alone but the mappings
MMFrame ==
    /\ UNCHANGED <<ghostVars, incVars, flagVars, stray, slotVars, detVars, histVars>>
    /\ UNCHANGED <<regVars, lateVars>>
    /\ UNCHANGED <<arg, rv, seen, ftidRead, tmp, prev>>

\* mmapAllocatePrivate is called: by the single-fragment initialize and by
\* createFragment with shutdownTHP = true, by ShadowHashMap::initialize without
CallAllocate(t) ==
    \E caller \in MMCallers :
        /\ pc[t] = "idle"
        /\ ops[t] < MaxOps
        /\ ops' = [ops EXCEPT ![t] = @ + 1]
        /\ mmArg' = [mmArg EXCEPT ![t] =
                        [caller |-> caller,
                         shutdownTHP |-> caller # "hash.initialize"]]
        /\ Goto(t, "mm_mmap")
        /\ UNCHANGED <<process, mmPtr, madvResult, nMapped, nDiag, starts>>
        /\ MMFrame

\* ptr = mmap(...): a new mapping, or MAP_FAILED
Mmap(t) ==
    /\ pc[t] = "mm_mmap"
    /\ \E ok \in BOOLEAN :
          /\ mmPtr' = [mmPtr EXCEPT ![t] = IF ok THEN nMapped + 1 ELSE MAP_FAILED]
          /\ nMapped' = IF ok THEN nMapped + 1 ELSE nMapped
    /\ Goto(t, "mm_check")
    /\ UNCHANGED <<process, mmArg, madvResult, nDiag, starts, ops>>
    /\ MMFrame

\* an mmap whose failure goes unnoticed
mmapFailed_never(ptr) == FALSE
\* if (ptr == MAP_FAILED)
mmapFailed(ptr) == ptr = MAP_FAILED

\* mmap failed: the diagnostic and exit(-1); else on to madvise or the return
MmapCheck(t) ==
    /\ pc[t] = "mm_check"
    /\ IF mmapFailed(mmPtr[t])
          THEN /\ nDiag' = nDiag + 1
               /\ Ends("exit")
          ELSE /\ Goto(t, IF mmArg[t].shutdownTHP THEN "mm_madvise" ELSE "mm_ret")
               /\ UNCHANGED <<nDiag, process>>
    /\ UNCHANGED <<mmArg, mmPtr, madvResult, nMapped, starts, ops>>
    /\ MMFrame

\* result = madvise(ptr, sz, MADV_NOHUGEPAGE): 0, or -1
Madvise(t) ==
    /\ pc[t] = "mm_madvise"
    /\ \E result \in {0, -1} : madvResult' = [madvResult EXCEPT ![t] = result]
    /\ Goto(t, "mm_advised")
    /\ UNCHANGED <<process, mmArg, mmPtr, nMapped, nDiag, starts, ops>>
    /\ MMFrame

\* madvise failed: the diagnostic and exit(-1)
MadviseCheck(t) ==
    /\ pc[t] = "mm_advised"
    /\ IF madvResult[t] # 0
          THEN /\ nDiag' = nDiag + 1
               /\ Ends("exit")
          ELSE /\ Goto(t, "mm_ret")
               /\ UNCHANGED <<nDiag, process>>
    /\ UNCHANGED <<mmArg, mmPtr, madvResult, nMapped, starts, ops>>
    /\ MMFrame

\* return ptr, which the caller stores as a start address
MmReturn(t) ==
    /\ pc[t] = "mm_ret"
    /\ starts' = starts \cup {<<mmArg[t].caller, mmPtr[t]>>}
    /\ Goto(t, "idle")
    /\ UNCHANGED <<process, mmArg, mmPtr, madvResult, nMapped, nDiag, ops>>
    /\ MMFrame

allocate(t) ==
    Mmap(t) \/ MmapCheck(t) \/ Madvise(t) \/ MadviseCheck(t) \/ MmReturn(t)

\* the maps' initialisations and lazily created fragments ask for mappings
NextAllocate == \E t \in Threads : CallAllocate(t) \/ allocate(t)

SpecAllocate == InitAllocate /\ [][NextAllocate]_vars

(* ================= accesses to a page that has its record ============= *)
\* the threads that may have touched the page first: the threads that run
\* and one more, which does nothing else
FirstTouchers == 1 .. NThreads + 1

\* the page's record was inserted on its first touch
InitRecord ==
    /\ mapKind = "single"
    /\ frag = TRUE
    /\ InitOther /\ InitCore
    /\ \E f \in FirstTouchers :
          /\ tag = [p \in Pages |-> INSERTED]
          /\ val = [p \in Pages |-> PageBasicAccessInfo(f)]

\* any interleaving of accesses to the page
NextRecord ==
    \E t \in Threads :
        \/ CallAccess(t) \/ Find(t)
        \/ RecordAccess(t) \/ Escalate(t) \/ DetailProtocol(t)

SpecRecord == InitRecord /\ [][NextRecord]_vars

(* ======================== the threshold tests ========================= *)
\* the page records the tests are asked about
Counts == 0 .. MaxCount
PageRecords ==
    [ftid : Threads, other : Counts, clw : [Lines -> Counts]]

InitThreshold ==
    /\ mapKind = "single"
    /\ frag = TRUE
    /\ InitNoRecords /\ InitCore
    /\ InitGhost /\ InitInc /\ InitProc /\ InitMM /\ InitLate
    /\ flagInfo \in PageRecords
    /\ flagPage = "none"
    /\ flagLine = [l \in Lines |-> "none"]

Answer(b) == IF b THEN "true" ELSE "false"

FlagFrame ==
    UNCHANGED <<ghostVars, incVars, procVars, mmVars, slotVars, detVars,
                localVars, histVars, regVars, lateVars, flagInfo>>

\* needPageSharingDetailInfo() is asked of the record
AskPage ==
    /\ flagPage = "none"
    /\ flagPage' = Answer(needPageSharingDetailInfo(flagInfo))
    /\ UNCHANGED flagLine
    /\ FlagFrame

\* needCacheLineSharingDetailInfo(addr) is asked of the record
AskLine ==
    \E addr \in Addrs :
        LET l == getCacheIndexInsidePage(addr) IN
        /\ flagLine[l] = "none"
        /\ flagLine' = [flagLine EXCEPT ![l] =
                           Answer(needCacheLineSharingDetailInfo(flagInfo, addr))]
        /\ UNCHANGED flagPage
        /\ FlagFrame

NextThreshold == AskPage \/ AskLine

SpecThreshold == InitThreshold /\ [][NextThreshold]_vars

(* ========================== DiagnoseObjInfo =========================== *)
\* scaled down: the capacity of a diagnosis' queue of cache-line details
MAX_TOP_CACHELINE_DETAIL_INFO == 2
\* the weights the score may give the two totals
ScoreWeights == {<<1, 1>>, <<1, 2>>}
\* what the memory of a pool buffer may hold where the objectInfo field lies
Indeterminate == {NULL} \cup ObjPtrs \cup StalePtrs

InitDiagnose ==
    /\ mapKind = "single"
    /\ frag = TRUE
    /\ InitNoRecords /\ InitCore /\ InitEarly
    /\ InitPair /\ InitPass /\ InitGeo /\ InitPool
    /\ dg = [i \in DiagIds |-> NoDiag]
    /\ scoreW \in ScoreWeights
    /\ cmp = NoCmp

DgFrame == UNCHANGED <<earlyVars, pairVars, passVars, geoVars, poolVars, scoreW>>

\* DiagnoseObjInfo(ObjectInfo *objectInfo) constructed in the buffer buff:
\* "objectInfo = objectInfo" assigns the parameter to itself, so the field keeps
\* what the buffer held; the totals are zeroed and the queue is empty
DiagnoseObjInfo(objectInfo, buff) ==
    [objectInfo |-> buff, passed |-> objectInfo,
     allInvalidNumInMainThread |-> 0, allInvalidNumInOtherThreads |-> 0,
     allAccessNumInMainThread |-> 0, allAccessNumInOtherThread |-> 0,
     topCacheLineDetailQueue |-> NoDetails,
     offered |-> NoDetails, ret |-> "none"]

\* createNewDiagnoseObjInfo(objectInfo): the pool's next buffer, whose memory
\* is not initialised, and the placement new
createNewDiagnoseObjInfo ==
    \E i \in DiagIds, objectInfo \in ObjPtrs, buff \in Indeterminate :
        /\ dg[i] = NoDiag
        /\ \A j \in DiagIds : j < i => dg[j] # NoDiag
        /\ dg' = [dg EXCEPT ![i] = DiagnoseObjInfo(objectInfo, buff)]
        /\ UNCHANGED cmp
        /\ DgFrame

\* Scores::getScoreForCacheInvalid: a weighted sum of the two totals
getScoreForCacheInvalid(inMain, inOthers) == scoreW[1] * inMain + scoreW[2] * inOthers
getSeriousScore(d) ==
    getScoreForCacheInvalid(d.allInvalidNumInMainThread, d.allInvalidNumInOtherThreads)

\* the seriousness score the queue orders the details by
detailScore(d) == getScoreForCacheInvalid(d.first, d.other)

\* the entries of a collection of details
RECURSIVE BagSizeOver(_, _)
BagSizeOver(q, S) ==
    IF S = {} THEN 0
    ELSE LET d == CHOOSE x \in S : TRUE IN q[d] + BagSizeOver(q, S \ {d})
getSize(q) == BagSizeOver(q, Details)
\* the kinds of detail in the queue that score lowest
Minima(q) ==
    {m \in Details : q[m] > 0 /\ \A x \in Details : q[x] > 0 => detailScore(m) <= detailScore(x)}

\* a full queue that takes nothing more
displaces_never(d, m) == FALSE
\* PriorityQueue::insert on a full queue: the offer takes the place of the
\* lowest entry when it scores higher
displaces(d, m) == detailScore(d) > detailScore(m)

\* PriorityQueue::insert(d) with m a lowest entry of a full queue: the queue
\* after, and the value returned
queueInsert(q, d, m) ==
    IF getSize(q) < MAX_TOP_CACHELINE_DETAIL_INFO
    THEN <<[q EXCEPT ![d] = @ + 1], "true">>
    ELSE IF displaces(d, m)
    THEN <<[[q EXCEPT ![m] = @ - 1] EXCEPT ![d] = @ + 1], "true">>
    ELSE <<q, "false">>

\* a total that counts only the details the queue kept
totalAfter_ifKept(total, n, kept) == IF kept = "true" THEN total + n ELSE total
\* "+=": the total grows by the detail's number, before the queue is asked
totalAfter(total, n, kept) == total + n

\* insertCacheLineDetailedInfo(d) on diagnosis i: the two invalidation totals
\* grow by the detail's numbers, the detail is offered to the bounded queue
\* and the queue's answer is returned; the access totals are not touched
InsertDetail(i, d) ==
    \E m \in IF Minima(dg[i].topCacheLineDetailQueue) = {} THEN {d}
             ELSE Minima(dg[i].topCacheLineDetailQueue) :
        LET r == queueInsert(dg[i].topCacheLineDetailQueue, d, m) IN
        /\ dg' = [dg EXCEPT
                     ![i].allInvalidNumInMainThread = totalAfter(@, d.first, r[2]),
                     ![i].allInvalidNumInOtherThreads = totalAfter(@, d.other, r[2]),
                     ![i].topCacheLineDetailQueue = r[1],
                     ![i].ret = r[2],
                     ![i].offered[d] = @ + 1]
        /\ UNCHANGED cmp
        /\ DgFrame

\* insertCacheLineDetailedInfo on any diagnosis, while its totals are small
insertCacheLineDetailedInfo ==
    \E i \in DiagIds, d \in Details :
        /\ dg[i] # NoDiag
        /\ dg[i].allInvalidNumInMainThread + d.first <= MaxTotal
        /\ dg[i].allInvalidNumInOtherThreads + d.other <= MaxTotal
        /\ InsertDetail(i, d)

\* the diagnosis whose queue is watched: the first one made
QueueDiag == CHOOSE i \in DiagIds : \A j \in DiagIds : i <= j

\* insertCacheLineDetailedInfo on that diagnosis, more often than its queue
\* has room
OfferDetail ==
    \E d \in Details :
        /\ dg[QueueDiag] # NoDiag
        /\ getSize(dg[QueueDiag].offered) < MaxOffers
        /\ InsertDetail(QueueDiag, d)

operatorLess(a, b) == getSeriousScore(a) < getSeriousScore(b)
operatorGreater(a, b) == getSeriousScore(a) > getSeriousScore(b)
\* a >= that is a >
operatorGreaterEq_strict(a, b) == getSeriousScore(a) > getSeriousScore(b)
operatorGreaterEq(a, b) == getSeriousScore(a) >= getSeriousScore(b)
operatorEq(a, b) == getSeriousScore(a) = getSeriousScore(b)

\* two diagnoses are compared with the four operators
Compare ==
    \E i, j \in DiagIds :
        /\ dg[i] # NoDiag /\ dg[j] # NoDiag
        /\ cmp' = [a |-> i, b |-> j,
                   lt |-> operatorLess(dg[i], dg[j]),
                   gt |-> operatorGreater(dg[i], dg[j]),
                   ge |-> operatorGreaterEq(dg[i], dg[j]),
                   eq |-> operatorEq(dg[i], dg[j])]
        /\ UNCHANGED dg
        /\ DgFrame

NextDiagnose == createNewDiagnoseObjInfo \/ insertCacheLineDetailedInfo \/ Compare

SpecDiagnose == InitDiagnose /\ [][NextDiagnose]_vars

\* one diagnosis is offered details, others are made beside it
NextQueue == createNewDiagnoseObjInfo \/ OfferDetail

SpecQueue == InitDiagnose /\ [][NextQueue]_vars

(* ------------- the two shadow maps run side by side ------------------ *)
\* One caller drives an AddressToPageIndexShadowMap (pm) and an
\* AddressToPageIndexSingleFragShadowMap (ps) with the same calls, one call at
\* a time; pr holds what the last call returned in each.
InitSideBySide ==
    /\ mapKind = "single"
    /\ frag = TRUE
    /\ InitNoRecords /\ InitCore /\ InitEarly
    /\ InitDg /\ InitPair /\ InitPass /\ InitGeo /\ InitPool

PairFrame == UNCHANGED <<earlyVars, dgVars, passVars, geoVars, poolVars>>

\* multi-fragment: key >> fragmentMappingBitNum, and hashKey
multiFragmentIndex(key) == key \div (2 ^ PairBitNum)
multiHashKey(key) == getPageIndex(key % PairMappingSize)
multiSlot(key) == <<multiFragmentIndex(key), multiHashKey(key)>>
\* multi-fragment getDataBlock: NULL (no slot) while the fragment is not mapped
NoBlock == <<-1, -1>>
multiGetDataBlock(m, key) ==
    IF m.startAddress[multiFragmentIndex(key)] = NULL THEN NoBlock ELSE multiSlot(key)

\* multi-fragment createFragment: maps the key's fragment if it is not mapped
multiCreateFragment(m, key) ==
    IF m.startAddress[multiFragmentIndex(key)] # NULL THEN m
    ELSE [m EXCEPT !.startAddress[multiFragmentIndex(key)] = 1]

\* the map after the call's "if (NULL == dataBlock) createFragment(key)"
multiEnsure(m, key) ==
    IF multiGetDataBlock(m, key) = NoBlock THEN multiCreateFragment(m, key) ELSE m

\* multi-fragment insertIfAbsent: <<the map after, the value returned>>
multiInsertIfAbsent(m, key, value) ==
    LET m1 == multiEnsure(m, key)
        sl == multiGetDataBlock(m1, key)
    IN  IF m1.tag[sl] # NOT_INSERT THEN <<m1, "false">>
        ELSE <<[m1 EXCEPT !.val[sl] = value, !.tag[sl] = INSERTED], "true">>

\* multi-fragment insert: the value, then the tag
multiInsert(m, key, value) ==
    LET m1 == multiEnsure(m, key)
        sl == multiGetDataBlock(m1, key)
    IN  [m1 EXCEPT !.val[sl] = value, !.tag[sl] = INSERTED]

\* what a find returns: NULL, or a pointer and the value it leads to
NullPtr == [null |-> TRUE, value |-> 0]
ValuePtr(v) == [null |-> FALSE, value |-> v]

multiFind(m, key) ==
    LET sl == multiGetDataBlock(m, key)
    IN  IF sl = NoBlock THEN NullPtr
        ELSE IF m.tag[sl] # INSERTED THEN NullPtr
        ELSE ValuePtr(m.val[sl])

\* a remove that resets every tag of the key's fragment
multiRemove_fragment(m, key) ==
    IF multiGetDataBlock(m, key) = NoBlock THEN m
    ELSE [m EXCEPT !.tag = [sl \in PairSlots |->
                               IF sl[1] = multiFragmentIndex(key)
                               THEN NOT_INSERT ELSE m.tag[sl]]]

\* multi-fragment remove: resets the tag, leaves the value bytes
multiRemove(m, key) ==
    LET sl == multiGetDataBlock(m, key)
    IN  IF sl = NoBlock THEN m ELSE [m EXCEPT !.tag[sl] = NOT_INSERT]

\* single-fragment getDataBlock: the slot of the key's page
singleGetDataBlock(key) == getPageIndex(key)

singleInsertIfAbsent(s, key, value) ==
    LET p == singleGetDataBlock(key)
    IN  IF s.tag[p] # NOT_INSERT THEN <<s, "false">>
        ELSE <<[s EXCEPT !.val[p] = value, !.tag[p] = INSERTED], "true">>

singleInsert(s, key, value) ==
    LET p == singleGetDataBlock(key)
    IN  [s EXCEPT !.val[p] = value, !.tag[p] = INSERTED]

singleFind(s, key) ==
    LET p == singleGetDataBlock(key)
    IN  IF s.tag[p] # INSERTED THEN NullPtr ELSE ValuePtr(s.val[p])

\* a remove that zeroes the value and leaves the tag
singleRemove_valueOnly(s, key) ==
    [s EXCEPT !.val[singleGetDataBlock(key)] = 0]

\* single-fragment remove: memset(dataBlock, 0, blockSize), tag and value
singleRemove(s, key) ==
    LET p == singleGetDataBlock(key)
    IN  [s EXCEPT !.tag[p] = NOT_INSERT, !.val[p] = 0]

PairInsertIfAbsent ==
    \E key \in PairAddrs, value \in PairValues :
        LET rm == multiInsertIfAbsent(pm, key, value)
            rs == singleInsertIfAbsent(ps, key, value)
        IN  /\ pm' = rm[1]
            /\ ps' = rs[1]
            /\ pr' = [op |-> "insertIfAbsent", key |-> key, value |-> value,
                      multi |-> [ret |-> rm[2]], single |-> [ret |-> rs[2]]]
            /\ PairFrame

\* insert returns the value's address in the one and nothing in the other
PairInsert ==
    \E key \in PairAddrs, value \in PairValues :
        /\ pm' = multiInsert(pm, key, value)
        /\ ps' = singleInsert(ps, key, value)
        /\ pr' = [op |-> "insert", key |-> key, value |-> value,
                  multi |-> [ret |-> "ptr"], single |-> [ret |-> "void"]]
        /\ PairFrame

PairFind ==
    \E key \in PairAddrs :
        /\ pr' = [op |-> "find", key |-> key, value |-> 0,
                  multi |-> multiFind(pm, key), single |-> singleFind(ps, key)]
        /\ UNCHANGED <<pm, ps>>
        /\ PairFrame

PairRemove ==
    \E key \in PairAddrs :
        /\ pm' = multiRemove(pm, key)
        /\ ps' = singleRemove(ps, key)
        /\ pr' = [op |-> "remove", key |-> key, value |-> 0,
                  multi |-> [ret |-> "void"], single |-> [ret |-> "void"]]
        /\ PairFrame

NextSideBySide == PairInsertIfAbsent \/ PairInsert \/ PairFind \/ PairRemove

SpecSideBySide == InitSideBySide /\ [][NextSideBySide]_vars

(* ------------------- the instrumentation pass ------------------------ *)
\* An instruction: its opcode, the object its address leads to
\* (GetUnderlyingObject), whether its pointer operand is the alloca itself,
\* whether that alloca is promotable to a register, and whether the access is
\* a direct in-bounds one (isSafeAccess). It accesses a 4-byte value, aligned
\* to 4 bytes: typeSize is the store size of the value in bits, alignment the
\* instruction's alignment in bytes (0: none given).
Inst(op, obj, ptrIsAlloca, promotable, safe) ==
    [op |-> op, obj |-> obj, ptrIsAlloca |-> ptrIsAlloca,
     promotable |-> promotable, safe |-> safe, typeSize |-> 32, alignment |-> 4]
LoadHeap         == Inst("load", "heap", FALSE, FALSE, FALSE)
StoreGlobal      == Inst("store", "global", FALSE, FALSE, TRUE)
CmpXchgHeap      == Inst("cmpxchg", "heap", FALSE, FALSE, FALSE)
StorePromotable  == Inst("store", "stack", TRUE, TRUE, TRUE)
LoadStackField   == Inst("load", "stack", FALSE, FALSE, TRUE)
LoadStackIndexed == Inst("load", "stack", FALSE, FALSE, FALSE)
Add              == Inst("add", "none", FALSE, FALSE, FALSE)
Insns == {LoadHeap, StoreGlobal, CmpXchgHeap, StorePromotable, LoadStackField,
          LoadStackIndexed, Add}

\* the instructions that access memory
MemoryOps == {"load", "store", "atomicrmw", "cmpxchg"}

\* function bodies of one or two basic blocks, MaxInsns instructions at most
OneBlock ==
    UNION {{<<x>> : x \in [1 .. a -> Insns]} : a \in 1 .. MaxInsns}
TwoBlocks ==
    UNION {{<<x, y>> : x \in [1 .. ab[1] -> Insns], y \in [1 .. ab[2] -> Insns]} :
           ab \in {c \in (1 .. MaxInsns) \X (1 .. MaxInsns) : c[1] + c[2] <= MaxInsns}}
FunctionNames == {"f", "load_8"}
Functions == [name : FunctionNames, blocks : OneBlock \cup TwoBlocks]

\* the pass is handed a function
InitInstrument ==
    /\ mapKind = "single"
    /\ frag = TRUE
    /\ InitNoRecords /\ InitCore /\ InitEarly
    /\ InitDg /\ InitPair /\ InitGeo /\ InitPool
    /\ fn \in Functions
    /\ scan = [NoScan EXCEPT !.at = "entry"]
    /\ ToInstrument = <<>>
    /\ hooked = {}
    /\ calls = <<>>

PassFrame == UNCHANGED <<earlyVars, dgVars, pairVars, geoVars, poolVars, fn>>

\* StringRef::startswith
startswith(name, prefix) ==
    /\ Len(name) >= Len(prefix)
    /\ SubSeq(name, 1, Len(prefix)) = prefix

\* instrumentFunction returns at once for the hooks' own functions
Excluded(F) ==
    \/ startswith(F.name, "__asan_")
    \/ startswith(F.name, "load_")
    \/ startswith(F.name, "store_")

\* isInterestingAlloca: not for an alloca promotable to a register
isInterestingAlloca(I) == ~I.promotable

\* isInterestingMemoryAccess: the pointer operand of a load, store, atomic
\* read-modify-write or compare-exchange; for an alloca operand, only if the
\* alloca is interesting
isInterestingMemoryAccess(I) ==
    /\ I.op \in MemoryOps
    /\ I.ptrIsAlloca => isInterestingAlloca(I)

\* instrumentMop inserts the call unless the access is a direct in-bounds
\* access to a stack variable
instrumentMopHooks(I) == ~(I.obj = "stack" /\ I.safe)

InstAt(pos) == fn.blocks[pos[1]][pos[2]]

\* isInterestingMemoryAccess: *IsWrite, false for a load only
IsWrite(I) == I.op # "load"
\* isInterestingMemoryAccess: *Alignment, 0 for the two atomic instructions
accessAlignment(I) == IF I.op \in {"atomicrmw", "cmpxchg"} THEN 0 ELSE I.alignment

\* instrumentMop: Granularity = 1 << Mapping.Scale
Granularity == 2 ^ kDefaultShadowScale

\* countTrailingZeros of a 32-bit value
RECURSIVE countTrailingZeros(_)
countTrailingZeros(n) ==
    IF n = 0 THEN 32
    ELSE IF n % 2 = 1 THEN 0
    ELSE 1 + countTrailingZeros(n \div 2)

\* an index taken from the size in bits
TypeSizeToSizeIndex_bits(TypeSize) == countTrailingZeros(TypeSize)
\* TypeSizeToSizeIndex: the index of the size in bytes
TypeSizeToSizeIndex(TypeSize) == countTrailingZeros(TypeSize \div 8)

\* initializeCallbacks: the callee InstrumenterMemoryAccessCallback
\* [AccessIsWrite][AccessSizeIndex] is declared under the name
\* TypeStr + "_" + itostr(1ULL << AccessSizeIndex) + "bytes"
InstrumenterMemoryAccessCallback(AccessIsWrite, AccessSizeIndex) ==
    (IF AccessIsWrite THEN "store" ELSE "load")
        \o "_" \o ToString(2 ^ AccessSizeIndex) \o "bytes"

\* a call inserted before the instruction at InsertBefore; AddrLong is the
\* pointer operand of the instruction at the position given, cast to integer
CreateCall(InsertBefore, callee, AddrLong) ==
    [before |-> InsertBefore, callee |-> callee, args |-> <<[pointerOperandOf |-> AddrLong]>>]

\* instrumentAddress: the callback of the access size
instrumentAddress(pos, TypeSize, isWrite) ==
    CreateCall(pos, InstrumenterMemoryAccessCallback(isWrite, TypeSizeToSizeIndex(TypeSize)), pos)

\* instrumentUnusualSizeOrAlignment: the callback of index 0
instrumentUnusualSizeOrAlignment(pos, TypeSize, isWrite) ==
    CreateCall(pos, InstrumenterMemoryAccessCallback(isWrite, 0), pos)

\* doInstrumentAddress: one check for a 1-, 2-, 4-, 8- or 16-byte access if
\* the data is properly aligned
doInstrumentAddress(pos, Alignment, TypeSize, isWrite) ==
    IF /\ TypeSize \in {8, 16, 32, 64, 128}
       /\ (Alignment >= Granularity \/ Alignment = 0 \/ Alignment >= TypeSize \div 8)
    THEN instrumentAddress(pos, TypeSize, isWrite)
    ELSE instrumentUnusualSizeOrAlignment(pos, TypeSize, isWrite)

\* the entry of instrumentFunction: the exclusions
instrumentFunctionEntry ==
    /\ scan.at = "entry"
    /\ scan' = IF Excluded(fn) THEN [scan EXCEPT !.at = "excluded"]
               ELSE [scan EXCEPT !.at = "scan", !.bb = 1, !.ix = 1]
    /\ UNCHANGED <<ToInstrument, hooked, calls>>
    /\ PassFrame

\* where the scan goes on in the next block, or the instrument loop
NextBlock(bb) ==
    IF bb < Len(fn.blocks)
    THEN [scan EXCEPT !.bb = bb + 1, !.ix = 1, !.NumInsnsPerBB = 0]
    ELSE [scan EXCEPT !.at = "instrument", !.next = 1]

\* one pass of "for (auto &Inst : BB)": collect an interesting access, and
\* leave the block once NumInsnsPerBB reaches the cap
ScanInst ==
    /\ scan.at = "scan"
    /\ LET I == InstAt(<<scan.bb, scan.ix>>)
           n == IF isInterestingMemoryAccess(I)
                THEN scan.NumInsnsPerBB + 1 ELSE scan.NumInsnsPerBB
       IN  /\ ToInstrument' = IF isInterestingMemoryAccess(I)
                              THEN Append(ToInstrument, <<scan.bb, scan.ix>>)
                              ELSE ToInstrument
           /\ scan' = IF n >= ClMaxInsnsToInstrumentPerBB
                         \/ scan.ix = Len(fn.blocks[scan.bb])
                      THEN NextBlock(scan.bb)
                      ELSE [scan EXCEPT !.ix = scan.ix + 1, !.NumInsnsPerBB = n]
    /\ UNCHANGED <<hooked, calls>>
    /\ PassFrame

\* one pass of "for (auto Inst : ToInstrument)": instrumentMop
InstrumentInst ==
    /\ scan.at = "instrument"
    /\ scan.next <= Len(ToInstrument)
    /\ LET pos == ToInstrument[scan.next]
           I == InstAt(pos)
           instrumented == isInterestingMemoryAccess(I) /\ instrumentMopHooks(I)
       IN  /\ hooked' = IF instrumented THEN hooked \cup {pos} ELSE hooked
           /\ calls' = IF instrumented
                       THEN Append(calls, doInstrumentAddress(pos, accessAlignment(I),
                                                              I.typeSize, IsWrite(I)))
                       ELSE calls
    /\ scan' = [scan EXCEPT !.next = scan.next + 1]
    /\ UNCHANGED ToInstrument
    /\ PassFrame

\* instrumentFunction returns
InstrumentDone ==
    /\ scan.at = "instrument"
    /\ scan.next > Len(ToInstrument)
    /\ scan' = [scan EXCEPT !.at = "done"]
    /\ UNCHANGED <<ToInstrument, hooked, calls>>
    /\ PassFrame

NextInstrument ==
    instrumentFunctionEntry \/ ScanInst \/ InstrumentInst \/ InstrumentDone

SpecInstrument == InitInstrument /\ [][NextInstrument]_vars

\* accesses of every kind, size and alignment: 1 to 16 bytes, and the 3, 10
\* and 32 bytes of an i24, an x86_fp80 and a vector
TypeSizes == {8, 16, 24, 32, 64, 80, 128, 256}
Alignments == {0, 1, 2, 4, 8, 16}
Access(op, typeSize, alignment) ==
    [Inst(op, "heap", FALSE, FALSE, FALSE) EXCEPT !.typeSize = typeSize,
                                                  !.alignment = alignment]
Accesses == {Access(op, ts, al) : op \in MemoryOps, ts \in TypeSizes, al \in Alignments}

\* bodies of one block: an access, alone or before another instruction
HookedFunctions ==
    [name : {"f", "store_8bytes"},
     blocks : {<<<<a>>>> : a \in Accesses}
                \cup {<<<<a, b>>>> : a \in Accesses, b \in {StoreGlobal, LoadStackField}}]

InitHooked ==
    /\ mapKind = "single"
    /\ frag = TRUE
    /\ InitNoRecords /\ InitCore /\ InitEarly
    /\ InitDg /\ InitPair /\ InitGeo /\ InitPool
    /\ fn \in HookedFunctions
    /\ scan = [NoScan EXCEPT !.at = "entry"]
    /\ ToInstrument = <<>>
    /\ hooked = {}
    /\ calls = <<>>

SpecHooked == InitHooked /\ [][NextInstrument]_vars

(* ------------- the geometry of the multi-fragment map ---------------- *)
\* sizeof(short), the tag at the head of a slot
META_DATA_SIZE == 2
WORD_SIZE == 8

\* sizeof(ValueType) of the maps instantiated
GeoValueSizes == {1, 6, 62, 63, 70}
\* the fragmentSize asked of initialize: room for one block at least
GeoRequests == {128, 200, 256, 500}
\* the addresses looked up: the first and last byte of pages at the borders of
\* the fragments
GeoKeys == {p * PAGE_SIZE + o : p \in {0, 1, 2, 3, 4, 31, 32, 63, 64, 127, 128},
                                o \in {0, PAGE_SIZE - 1}}

\* ALIGN_TO_CACHELINE(size), and the like for a word
alignUpToCacheLine(size) ==
    IF size % CACHE_LINE_SIZE = 0 THEN size
    ELSE ((size + CACHE_LINE_SIZE) \div CACHE_LINE_SIZE) * CACHE_LINE_SIZE
alignUpToWord(size) ==
    IF size % WORD_SIZE = 0 THEN size
    ELSE ((size + WORD_SIZE) \div WORD_SIZE) * WORD_SIZE

\* Maths::getCeilingPowerOf2(x): the n of the least 2^n >= x
RECURSIVE CeilingFrom(_, _)
CeilingFrom(n, x) == IF 2 ^ n >= x THEN n ELSE CeilingFrom(n + 1, x)
getCeilingPowerOf2(x) == CeilingFrom(0, x)
\* Maths::getCeilingBitMask(x): the bits below that power of two
getCeilingBitMask(x) == 2 ^ getCeilingPowerOf2(x) - 1

\* initialize: the size of a slot
blockSizeOf(valueSize, needAlignToCacheLine) ==
    IF needAlignToCacheLine THEN alignUpToCacheLine(valueSize + META_DATA_SIZE)
    ELSE alignUpToWord(valueSize + META_DATA_SIZE)

\* initialize: the addresses one fragment of the size asked stands for
fragmentMappingSize(fragmentSize, blockSize) ==
    (fragmentSize \div blockSize) * PAGE_SIZE

\* a fragment left at the size asked for
fragmentSizeAfter_asRequested(fragmentSize, blockSize) == fragmentSize

\* initialize: this->fragmentSize, a block for each page of the rounded range
fragmentSizeAfter(fragmentSize, blockSize) ==
    ((2 ^ getCeilingPowerOf2(fragmentMappingSize(fragmentSize, blockSize)))
        \div PAGE_SIZE) * blockSize

InitGeometry ==
    /\ mapKind = "multi"
    /\ frag = FALSE
    /\ InitNoRecords /\ InitCore /\ InitEarly
    /\ InitDg /\ InitPair /\ InitPass /\ InitGeo /\ InitPool

GeoFrame == UNCHANGED <<earlyVars, dgVars, pairVars, passVars, poolVars>>

\* initialize(fragmentSize, needAlignToCacheLine) of a map of ValueType
GeoInitialize ==
    /\ ~geo.initialized
    /\ \E fragmentSize \in GeoRequests, valueSize \in GeoValueSizes,
          needAlignToCacheLine \in BOOLEAN :
        LET blockSize == blockSizeOf(valueSize, needAlignToCacheLine)
        IN  geo' = [initialized |-> TRUE, request |-> fragmentSize,
                    valueSize |-> valueSize,
                    needAlignToCacheLine |-> needAlignToCacheLine,
                    fragmentSize |-> fragmentSizeAfter(fragmentSize, blockSize),
                    blockSize |-> blockSize,
                    fragmentMappingBitNum |->
                        getCeilingPowerOf2(fragmentMappingSize(fragmentSize, blockSize))]
    /\ UNCHANGED gslot
    /\ GeoFrame

\* getDataBlock: key >> fragmentMappingBitNum, and the offset in the fragment
geoFragmentIndex(g, key) == key \div (2 ^ g.fragmentMappingBitNum)
geoHashKey(g, key) == getPageIndex(key % (2 ^ g.fragmentMappingBitNum))
geoOffset(g, key) == geoHashKey(g, key) * g.blockSize

\* getDataBlock(key) after createFragment: NULL past the last fragment
GeoGetDataBlock ==
    /\ geo.initialized
    /\ \E key \in GeoKeys :
        gslot' = [key |-> key, fragmentIndex |-> geoFragmentIndex(geo, key),
                  offset |-> IF geoFragmentIndex(geo, key) >= MAX_FRAGMENTS
                             THEN -1 ELSE geoOffset(geo, key)]
    /\ UNCHANGED geo
    /\ GeoFrame

NextGeometry == GeoInitialize \/ GeoGetDataBlock

SpecGeometry == InitGeometry /\ [][NextGeometry]_vars

(* --------------------------- the thread pool -------------------------- *)
\* The pool is created, joined or cancelled, and destroyed by one client
\* thread; its threads run their start routines and return from them on
\* their own. A call whose assertion fails aborts the process, so it is not
\* a step. pthread_join waits for the thread to have terminated.
InitThreadPool ==
    /\ mapKind = "single"
    /\ frag = TRUE
    /\ InitNoRecords /\ InitCore /\ InitEarly
    /\ InitDg /\ InitPair /\ InitPass /\ InitGeo /\ InitPool

PoolFrame == UNCHANGED <<earlyVars, dgVars, pairVars, passVars, geoVars>>

\* the pthread_t values not handed out yet, lowest first
RECURSIVE FreshIds(_, _)
FreshIds(free, n) ==
    IF n = 0 THEN <<>>
    ELSE LET id == CHOOSE x \in free : \A y \in free : x <= y
         IN  <<id>> \o FreshIds(free \ {id}, n - 1)

Range(f) == {f[x] : x \in DOMAIN f}

\* tpool_create(opts, nthreads, nodeId). nullRoutineAt: the first entry of
\* opts whose start_routine is NULL (0: none); mallocFails: which of the two
\* malloc calls returns NULL (0: none); createFailsAt: the entry at which
\* pthread_create fails (0: none)
tpool_create ==
    /\ pool = NoPool
    /\ created.calls < MaxCreates
    /\ \E opts \in {"NULL", "array"}, nthreads \in 0 .. MaxPoolThreads,
          mallocFails \in 0 .. 2 :
       \E nullRoutineAt \in 0 .. nthreads, createFailsAt \in 0 .. nthreads :
        LET invalid == opts = "NULL" \/ nthreads < 1 \/ nullRoutineAt # 0
            nStarted == IF invalid \/ mallocFails # 0 THEN 0
                        ELSE IF createFailsAt # 0 THEN createFailsAt - 1
                        ELSE nthreads
            ids == FreshIds({id \in ThreadIds : thr[id] = "none"}, nStarted)
            ok == ~invalid /\ mallocFails = 0 /\ createFailsAt = 0
            \* what is malloc'ed and not freed when the call returns
            blocks == IF ok THEN {"pool", "threads"} ELSE {}
        IN  /\ opts = "NULL" => nullRoutineAt = 0
            /\ invalid => mallocFails = 0 /\ createFailsAt = 0
            /\ mallocFails # 0 => createFailsAt = 0
            /\ thr' = [id \in ThreadIds |-> IF id \in Range(ids) THEN "running" ELSE thr[id]]
            /\ heap' = heap \cup blocks
            /\ pool' = IF ok THEN [state |-> "RUNNING", nthreads |-> nthreads, threads |-> ids]
                       ELSE NoPool
            /\ created' = [calls |-> created.calls + 1, opts |-> opts, nthreads |-> nthreads,
                           nullRoutineAt |-> nullRoutineAt,
                           ret |-> IF ok THEN "pool" ELSE "NULL",
                           started |-> Range(ids), allocated |-> blocks]
            /\ hist' = <<[op |-> "create", ret |-> IF ok THEN 0 ELSE -1]>>
    /\ PoolFrame

\* a thread of the process returns from its start routine
ThreadReturns ==
    \E id \in ThreadIds :
        /\ thr[id] = "running"
        /\ thr' = [thr EXCEPT ![id] = "finished"]
        /\ UNCHANGED <<pool, heap, created, hist>>
        /\ PoolFrame

\* tpool_join(pool, value_ptrs); failsAt: the thread at which pthread_join
\* returns an error (0: none)
tpool_join ==
    /\ pool # NoPool
    /\ pool.state = "RUNNING"
    /\ \E failsAt \in 0 .. pool.nthreads :
        LET joined == {pool.threads[i] : i \in {j \in 1 .. pool.nthreads : failsAt = 0 \/ j < failsAt}}
        IN  /\ \A id \in joined : thr[id] = "finished"
            /\ thr' = [id \in ThreadIds |-> IF id \in joined THEN "joined" ELSE thr[id]]
            /\ pool' = [pool EXCEPT !.state = IF failsAt # 0 THEN "ERROR" ELSE "READY"]
            /\ hist' = Append(hist, [op |-> "join", ret |-> IF failsAt # 0 THEN -1 ELSE 0])
    /\ UNCHANGED <<heap, created>>
    /\ PoolFrame

\* tpool_cancel(pool); failed: the threads for which pthread_cancel returns
\* an error
tpool_cancel ==
    /\ pool # NoPool
    /\ pool.state = "RUNNING"
    /\ \E failed \in SUBSET Range(pool.threads) :
        /\ thr' = [id \in ThreadIds |->
                      IF id \in Range(pool.threads) \ failed /\ thr[id] = "running"
                      THEN "cancelled" ELSE thr[id]]
        /\ pool' = [pool EXCEPT !.state = IF failed # {} THEN "ERROR" ELSE "READY"]
        /\ hist' = Append(hist, [op |-> "cancel", ret |-> IF failed # {} THEN -1 ELSE 0])
    /\ UNCHANGED <<heap, created>>
    /\ PoolFrame

\* a destroy that asserts nothing about the state
acceptsDestroy_always(state) == TRUE
\* tpool_destroy: assert(pool->state != POOL_STATE_RUNNING)
acceptsDestroy(state) == state # "RUNNING"

\* tpool_destroy(pool)
tpool_destroy ==
    /\ pool # NoPool
    /\ acceptsDestroy(pool.state)
    /\ heap' = heap \ {"pool", "threads"}
    /\ pool' = NoPool
    /\ hist' = Append(hist, [op |-> "destroy", ret |-> 0])
    /\ UNCHANGED <<thr, created>>
    /\ PoolFrame

NextThreadPool ==
    tpool_create \/ ThreadReturns \/ tpool_join \/ tpool_cancel \/ tpool_destroy

SpecThreadPool == InitThreadPool /\ [][NextThreadPool]_vars

(* ------------------------------ claims -------------------------------- *)
ThePage == CHOOSE p \in Pages : TRUE

\* C1: among concurrent insertIfAbsent calls on one page slot at most one
\* returns true; once every call has returned exactly one has, and the slot is
\* INSERTED and holds the value that call passed; a call returns false only
\* when another call has won the slot
C1_OneInsertWins ==
    /\ Len(winners) <= 1
    /\ \A p \in Pages : tag[p] = INSERTED =>
           /\ Len(winners) = 1
           /\ val[p] = InfoValue(winners[1][2])
    /\ \A t \in Threads : rv[t] = "false" =>
           /\ Len(winners) = 1
           /\ \A p \in Pages : tag[p] = INSERTED
    /\ (Quiescent /\ \E t \in Threads : ops[t] > 0) =>
           /\ Len(winners) = 1
           /\ \A p \in Pages : tag[p] = INSERTED

\* two calls with different values have returned, one true and one false, and
\* the slot holds the winner's value
C1_Witness ==
    \E t, u \in Threads :
        /\ t # u /\ pc[t] = "idle" /\ pc[u] = "idle"
        /\ rv[t] = "true" /\ rv[u] = "false"
        /\ arg[t].v # arg[u].v
        /\ winners = <<<<t, arg[t].v, FALSE>>>>
        /\ val[ThePage] = InfoValue(arg[t].v)

\* C2: a reader that find gave a pointer to (it read the tag as INSERTED)
\* reads a completely constructed value through it: never one a writer is
\* still copying in, never a zeroed one
C2_ReaderSeesWholeValue ==
    \A t \in Threads : seen[t] \in {"none", "whole"}

\* thread t has read the first-touch id in the access it runs or ran last
HasReadFtid(t) ==
    arg[t].hook = "access" /\ rv[t] = "ptr" /\ pc[t] # "rec_ftid"

\* C3: the first-touch id of a page record is stored once, by the one call
\* that won the NOT_INSERT -> INSERTING compare-and-set: once the record is
\* INSERTED its id is that call's and every id a thread reads from it is
C3_FirstTouchSetOnce ==
    /\ Len(winners) <= 1
    /\ \A p \in Pages : tag[p] = INSERTED =>
           /\ Len(winners) = 1
           /\ val[p].ftid = winners[1][2]
    /\ \A t \in Threads : HasReadFtid(t) =>
           /\ Len(winners) = 1
           /\ ftidRead[t] = winners[1][2]

\* a thread other than the one that created the record has read the id, after
\* a first-touch event and an access both ran on the page
C3_Witness ==
    \E t, u \in Threads :
        /\ t # u /\ HasReadFtid(t) /\ ftidRead[t] = u
        /\ arg[u].hook = "first_touch" /\ pc[u] = "idle" /\ ops[u] = MaxOps
        /\ val[ThePage].ftid = u

\* C4 as claimed: at quiescence the recorded first-touch thread is the thread
\* that was first to begin an access or first-touch event on the page
C4_FirstToBegin ==
    \A p \in Pages : (Quiescent /\ firstStarter[p] # NoThread) =>
        /\ tag[p] = INSERTED
        /\ val[p].ftid = firstStarter[p]

\* C4 as amended: at quiescence exactly one first-touch id is recorded for a
\* touched page, the id of the thread whose call won the compare-and-set, and
\* that call began before any call on the page had returned
C4_CasWinnerIsFirstTouch ==
    \A p \in Pages : (Quiescent /\ firstStarter[p] # NoThread) =>
        /\ tag[p] = INSERTED
        /\ Len(winners) = 1
        /\ val[p].ftid = winners[1][1]
        /\ ~winners[1][3]

\* all calls have returned and the recorded thread is not the one that began
\* first
C4_Witness ==
    /\ Quiescent
    /\ \A t \in Threads : ops[t] = MaxOps
    /\ tag[ThePage] = INSERTED
    /\ val[ThePage].ftid # firstStarter[ThePage]

\* C5: no counter of a page record ever decreases
C5_CountersMonotone ==
    [][\A p \in Pages :
          /\ val'[p].other >= val[p].other
          /\ \A l \in Lines : val'[p].clw[l] >= val[p].clw[l]]_vars

\* C6: a line has a detail record only if its write counter exceeded the
\* threshold, and has one once the access that took it over has returned
C6_DetailIffExceeded ==
    \A l \in Lines :
        /\ dtag[l] # NOT_INSERT => crosser[l] # NoCrosser
        /\ (crosser[l] # NoCrosser /\ Returned(crosser[l][1], crosser[l][2]))
               => dtag[l] = INSERTED

RECURSIVE SumOver(_, _)
SumOver(f, S) ==
    IF S = {} THEN 0
    ELSE LET x == CHOOSE y \in S : TRUE IN f[x] + SumOver(f, S \ {x})

\* C7: at quiescence the per-thread write counts of a line's detail add up to
\* the page record's write counter of that line
C7_AttributionSum ==
    Quiescent =>
        \A p \in Pages, l \in Lines :
            dtag[l] = INSERTED => SumOver(det[l].writes, Threads) = val[p].clw[l]

\* the step in which thread t moves from one place to another
Step(t, from, to) == pc[t] = from /\ pc'[t] = to

RECURSIVE CountDiags(_, _)
CountDiags(s, addr) ==
    IF s = <<>> THEN 0
    ELSE (IF Head(s).addr = addr THEN 1 ELSE 0) + CountDiags(Tail(s), addr)

\* thread t is in a free of addr that has pushed its diagnosis
Diagnosed(t, addr) ==
    arg[t].hook = "free" /\ arg[t].key = addr /\ pc[t] = "f_unreg"

\* C8: when the hooks on an object do not overlap, each free of a live object
\* records exactly one diagnosis and unregisters the object, and a free of an
\* object freed already (no allocation in between) finds nothing in the
\* registry, records no diagnosis and leaves the object unregistered
C8_OneDiagnosisPerObject ==
    \A a \in Addrs : ~overlap[a] =>
        /\ CountDiags(diags, a)
             = nFreed[a] + Cardinality({t \in Threads : Diagnosed(t, a)})
        /\ \A t \in Threads :
              (arg[t].hook = "free" /\ arg[t].key = a /\ arg[t].type = "again")
                  => pc[t] \in {"f_find", "idle"} /\ rv[t] \in {"none", "null"}
        /\ ~InHeapHook(Threads, a) => isInserted[hashKey(a)] = allocated[a]

\* an object was allocated once and freed twice, one free after the other: one
\* diagnosis, for its call site, and the second free found nothing
C8_Witness ==
    /\ Quiescent
    /\ \E a \in Addrs, t, u \in Threads :
          /\ t # u /\ ~overlap[a]
          /\ arg[t].hook = "free" /\ arg[t].key = a /\ arg[t].type = "first"
          /\ rv[t] = "ptr"
          /\ arg[u].hook = "free" /\ arg[u].key = a /\ arg[u].type = "again"
          /\ rv[u] = "null"
          /\ nFreed[a] = 1
          /\ diags = <<[addr |-> a, site |-> 2]>>

\* the entries of a line's log in which the writer changed
Changes(log) == {i \in 1 .. Len(log) : log[i][1] # log[i][2]}

\* the writes to line l that replaced another writer and have not charged yet
Uncharged(l) ==
    {t \in Threads : /\ pc[t] = "w_upd"
                     /\ getCacheIndexInsidePage(arg[t].key) = l
                     /\ prev[t] # t}

\* C11: the compare-and-sets on a line's last writer put its writes in one
\* order: each write replaced the writer just before it in that order, the
\* last one is the line's last writer, and (on a line no thread has read, so
\* that every charge is a write's) the invalidations charged, with those of
\* the writes still to charge, are as many as the changes of writer
C11_AttributionLinearizable ==
    \A l \in Lines :
        LET log == writeLog[l] IN
        /\ \A i \in 1 .. Len(log) :
              log[i][1] = (IF i = 1 THEN NoThread ELSE log[i - 1][2])
        /\ det[l].lastWriter = (IF log = <<>> THEN NoThread ELSE log[Len(log)][2])
        /\ (\A t \in Threads : det[l].reads[t] = 0) =>
              det[l].invFirst + det[l].invOther + Cardinality(Uncharged(l))
                  = Cardinality(Changes(log))

\* three writes reached a line's detail, each replaced another writer (the
\* first of them no writer) and each has charged its invalidation
C11_Witness ==
    \E l \in Lines :
        /\ Quiescent
        /\ Len(writeLog[l]) = 3
        /\ Cardinality(Changes(writeLog[l])) = 3
        /\ det[l].invFirst + det[l].invOther = 3
        /\ \A t \in Threads : det[l].reads[t] = 0

\* thread t has made a call of automicIncrease and it has returned
IncReturned(t) == pc[t] = "idle" /\ ops[t] > 0

\* C12: a compare-and-swap of automicIncrease that succeeds moves the target
\* by exactly the call's delta and the call returns the target's new value, the
\* value it read plus delta; so the target is always its initial value plus
\* the deltas of the calls that succeeded
C12_IncreaseAtomic ==
    /\ [](target = target0 + applied)
    /\ [][\A t \in Threads :
             (Step(t, "inc_cas", "idle")) =>
                 /\ target' = target + incArg[t].delta
                 /\ incRet'[t] = target'
                 /\ incRet'[t] = expect[t] + incArg[t].delta]_vars

\* every call has returned, each applied its delta, and one of them had lost
\* a compare-and-swap to the other thread before it succeeded
C12_Witness ==
    /\ Quiescent
    /\ \A t \in Threads : ops[t] = MaxOps /\ won[t]
    /\ \E t \in Threads : tries[t] >= 1
    /\ target # target0

\* the compare-and-swaps t's call has made or is making
Attempts(t) == tries[t] + (IF won[t] \/ pc[t] = "inc_cas" THEN 1 ELSE 0)

\* C13: a call with retry_num >= 0 makes at most retry_num compare-and-swaps;
\* when none succeeded it returns -1 after exactly retry_num of them, and no
\* step of a call whose compare-and-swap has not succeeded changes the target
C13_BoundedRetry ==
    /\ [](\A t \in Threads : incArg[t].retry >= 0 =>
             /\ Attempts(t) <= incArg[t].retry
             /\ (IncReturned(t) /\ ~won[t]) =>
                    incRet[t] = Sentinel /\ tries[t] = incArg[t].retry)
    /\ [][\A t \in Threads :
             (pc'[t] # pc[t] /\ ~won'[t]) => target' = target]_vars

\* a call with a budget of two lost both its compare-and-swaps to the other
\* thread's calls and returned -1, the target holding what the others made it
C13_Witness ==
    \E t \in Threads :
        /\ IncReturned(t) /\ ~won[t] /\ incArg[t].retry = 2 /\ tries[t] = 2
        /\ incRet[t] = Sentinel
        /\ target = target0 + applied /\ applied # 0

\* C14: a call with retry_num < 0 never returns for want of budget: it returns
\* only by a compare-and-swap that succeeded, which applied its delta once;
\* and, the other threads making finitely many updates, it returns in the end
\* when every thread keeps being scheduled
C14_RetryForever ==
    /\ [](\A t \in Threads : (incArg[t].retry < 0 /\ IncReturned(t)) =>
             won[t] /\ incRet[t] = expect[t] + incArg[t].delta)
    /\ [][\A t \in Threads :
             (incArg[t].retry < 0 /\ pc[t] # "idle" /\ pc'[t] = "idle") =>
                 /\ Step(t, "inc_cas", "idle")
                 /\ target' = target + incArg[t].delta]_vars
    /\ \A t \in Threads :
          (incArg[t].retry < 0 /\ pc[t] # "idle") ~> (pc[t] = "idle")

\* a call that retries forever lost two compare-and-swaps and then succeeded
C14_Witness ==
    \E t \in Threads :
        /\ IncReturned(t) /\ incArg[t].retry < 0
        /\ tries[t] = 2 /\ won[t]

\* thread t is inside createFragment, holding the lock
InCreateFragment(t) == pc[t] \in {"cf_map", "cf_unlock"}

\* C15: under concurrent createFragment calls, reached from insert and
\* insertIfAbsent, the fragment is mapped at most once and stays mapped; the
\* lock is held by a thread inside createFragment and by no other, so it is
\* free when the calls have returned; and a caller that leaves createFragment
\* finds the fragment mapped
C15_FragmentMappedOnce ==
    /\ [](mapKind = "multi" =>
             /\ nMaps <= 1
             /\ frag <=> (nMaps = 1)
             /\ \A t \in Threads : (lock = t) <=> InCreateFragment(t)
             /\ Quiescent => lock = NoThread)
    /\ [][/\ frag => frag'
          /\ \A t \in Threads :
                (pc[t] = "cf_unlock" /\ pc'[t] # "cf_unlock") =>
                    frag' /\ lock' = NoThread]_vars

\* two threads found the fragment NULL and called createFragment; one has
\* mapped it and left, the other holds the lock and is about to find it mapped
C15_Witness ==
    /\ mapKind = "multi"
    /\ frag /\ nMaps = 1
    /\ \E t, u \in Threads :
          /\ t # u /\ lock = u /\ pc[u] = "cf_map"
          /\ arg[u].op = "insert" /\ arg[t].op = "insertIfAbsent"
          /\ ops[t] = 1 /\ ops[u] = 1
          /\ pc[t] \in {"iia_cas", "iia_ftid", "iia_wait"}

\* C16: an insert or insertIfAbsent with an address outside the supported
\* range is dropped: the host process keeps running (no abort, no fault),
\* nothing outside the shadow is written, and the lock is not left held
C16_OutOfRangeDropped ==
    /\ process = "running"
    /\ ~stray
    /\ \A t \in Threads : pc[t] = "idle" => lock # t

\* C17: when mmap or the madvise that turns transparent huge pages off fails,
\* MM::allocate prints a diagnostic and ends the process; it returns neither
\* MAP_FAILED nor NULL, so every start address stored, by an initialisation or
\* by createFragment, is the address of a mapping that was made
C17_AllocateNeverFails ==
    /\ \A s \in starts : s[2] \notin {MAP_FAILED, NULL} /\ s[2] \in 1 .. nMapped
    /\ \A t \in Threads :
          /\ pc[t] = "mm_ret" => mmPtr[t] \in 1 .. nMapped
          /\ (mmPtr[t] = MAP_FAILED /\ pc[t] # "mm_check") =>
                 process = "exit" /\ nDiag = 1
          /\ (madvResult[t] # 0 /\ pc[t] # "mm_advised") =>
                 process = "exit" /\ nDiag = 1
    /\ process = "exit" <=> nDiag = 1
    /\ nDiag <= 1

\* a fragment created on the hot path and a map's initial mapping are stored,
\* and then a madvise failed: the diagnostic is printed and the process ended
C17_Witness ==
    /\ process = "exit" /\ nDiag = 1
    /\ \E t \in Threads : madvResult[t] # 0 /\ mmArg[t].shutdownTHP
    /\ \E p, q \in 1 .. nMapped :
          {<<"createFragment", p>>, <<"single.initialize", q>>} \subseteq starts

\* C18: recordAccessForPageSharing(t) goes on to count exactly when t is not
\* the page's first-touch thread, its increment adds exactly one to
\* accessNumberByOtherThreads, and a call by the first-touch thread writes
\* nothing
C18_PageSharingCount ==
    [][\A t \in Threads :
          LET p == getPageIndex(arg[t].key) IN
          /\ (pc[t] = "rec_ftid" /\ pc'[t] # "rec_ftid") =>
                /\ (pc'[t] = "rec_other_ld") <=> (val[p].ftid # t)
                /\ val' = val
          /\ (pc[t] = "rec_other_st" /\ pc'[t] # "rec_other_st") =>
                val'[p] = [val[p] EXCEPT !.other = @ + 1]]_vars

\* C19: the increment of recordAccessForCacheSharing(addr, WRITE) adds exactly
\* one to the write counter of addr's cache line and changes nothing else in
\* the page record; a call with READ makes no increment
C19_CacheSharingCount ==
    [][\A t \in Threads :
          LET p == getPageIndex(arg[t].key)
              l == getCacheIndexInsidePage(arg[t].key) IN
          /\ (pc[t] = "rec_clw_st" /\ pc'[t] # "rec_clw_st") =>
                val'[p] = [val[p] EXCEPT !.clw[l] = @ + 1]
          /\ (arg[t].hook = "access" /\ arg[t].type = "E_ACCESS_READ") =>
                pc'[t] \notin {"rec_clw_ld", "rec_clw_st"}]_vars

\* C20: the page is flagged exactly when accessNumberByOtherThreads is above
\* PAGE_SHARING_DETAIL_THRESHOLD, line k exactly when cacheLineWritingNumber[k]
\* is above CACHE_SHARING_DETAIL_THRESHOLD, and two records with the same
\* counter for line k get the same answer for line k
C20_ThresholdsStrict ==
    /\ flagPage # "none" =>
          (flagPage = "true" <=> flagInfo.other > PAGE_SHARING_DETAIL_THRESHOLD)
    /\ \A l \in Lines : flagLine[l] # "none" =>
          /\ flagLine[l] = "true"
                 <=> flagInfo.clw[l] > CACHE_SHARING_DETAIL_THRESHOLD
          /\ \A r \in PageRecords, addr \in Addrs :
                (getCacheIndexInsidePage(addr) = l /\ r.clw[l] = flagInfo.clw[l])
                    => flagLine[l] = Answer(needCacheLineSharingDetailInfo(r, addr))

\* a record with both kinds of counter at the threshold and one line above it:
\* the page and the line at the threshold are not flagged, the line above is
C20_Witness ==
    /\ flagInfo.other = PAGE_SHARING_DETAIL_THRESHOLD /\ flagPage = "false"
    /\ \E k, l \in Lines :
          /\ flagInfo.clw[k] = CACHE_SHARING_DETAIL_THRESHOLD
          /\ flagLine[k] = "false"
          /\ flagInfo.clw[l] = CACHE_SHARING_DETAIL_THRESHOLD + 1
          /\ flagLine[l] = "true"

\* C30: find returns in one step from any state (it never waits); it returns
\* NULL when the fragment of the address is not mapped or the slot's tag is
\* NOT_INSERT or INSERTING, a pointer otherwise; and it maps no fragment and
\* changes no tag, no value and not the lock
C30_FindReadOnly ==
    /\ [](\A t \in Threads : pc[t] = "find" => ENABLED Find(t))
    /\ [][\A t \in Threads :
             LET p == getPageIndex(arg[t].key)
                 mapped == mapKind = "single" \/ frag
             IN  (pc[t] = "find" /\ pc'[t] # "find") =>
                     /\ slotVars' = slotVars
                     /\ rv'[t] = (IF mapped /\ tag[p] = INSERTED
                                  THEN "ptr" ELSE "null")]_vars

\* a find read the tag INSERTING, in a mapped fragment, and returned NULL,
\* the slot being INSERTING still
C30_Witness ==
    \E t \in Threads :
        /\ arg[t].op = "find" /\ rv[t] = "null" /\ pc[t] = "idle"
        /\ findSaw[t] = "INSERTING"
        /\ mapKind = "multi" /\ frag
        /\ tag[getPageIndex(arg[t].key)] = INSERTING

\* C27: an insertIfAbsent that lost the compare-and-set leaves its busy wait
\* and returns false in the end, whatever insertIfAbsent, insert and remove
\* calls run on the slot, when every thread inside an operation keeps being
\* scheduled
C27_BusyWaitTerminates ==
    \A t \in Threads :
        (pc[t] = "iia_wait") ~> (pc[t] = "idle" /\ rv[t] = "false")

\* an insertIfAbsent on page p has returned
IiaReturned(p) ==
    \/ Len(winners) > 0
    \/ \E u \in Threads :
          /\ arg[u].op = "insertIfAbsent" /\ getPageIndex(arg[u].key) = p
          /\ rv[u] \in {"true", "false"}

C21_PageRecordPersists ==
    /\ [][\A p \in Pages :
             /\ tag[p] = INSERTED =>
                    /\ tag'[p] = INSERTED
                    /\ val'[p].ftid = val[p].ftid
                    /\ val[p].other > 0 => val'[p].other > 0
                    /\ \A l \in Lines : val[p].clw[l] > 0 => val'[p].clw[l] > 0
             /\ \A t \in Threads :
                    (pc'[t] # pc[t] /\ arg'[t].hook \in HeapHooks) =>
                        tag' = tag /\ val' = val]_vars
    /\ [][\A t \in Threads :
             (/\ pc[t] = "find" /\ pc'[t] # "find"
              /\ tag[getPageIndex(arg[t].key)] = INSERTED) => rv'[t] = "ptr"]_vars

\* a thread wrote to the page, creating its record; the object at that address
\* was freed by the other thread and the address was then allocated again by
\* the first: the record is there, with its first-touch thread and its count
C21_Witness ==
    \E t, u \in Threads, a \in Addrs :
        LET p == getPageIndex(a) IN
        /\ t # u /\ Quiescent
        /\ arg[u].hook = "free" /\ arg[u].key = a /\ rv[u] = "ptr"
        /\ nFreed[a] = 1 /\ CountDiags(diags, a) = 1
        /\ arg[t].hook = "malloc" /\ arg[t].key = a /\ ops[t] = MaxOps
        /\ allocated[a] /\ isInserted[hashKey(a)]
        /\ tag[p] = INSERTED /\ val[p].ftid = t
        /\ val[p].clw[getCacheIndexInsidePage(a)] = 1
        /\ FindResult(a) = "ptr"

\* C25: in the hash-keyed table a slot whose flag reads inserted has its value
\* stored, so a find that runs concurrently with insertIfAbsent or insert
\* returns NULL or a pointer through which a stored value is read
C25_HashPublication ==
    \A t \in Threads :
        /\ pc[t] = "h_use" => regValue[hashKey(arg[t].key)] # NoObject
        /\ seen[t] \in {"none", "whole"}

\* C22: the diagnosis createNewDiagnoseObjInfo(objectInfo) constructs holds
\* the pointer it was given in its objectInfo field, its four totals are zero
\* and its queue is empty
C22_DiagnosisRefersToObject ==
    [][\A i \in DiagIds :
          (dg[i] = NoDiag /\ dg'[i] # NoDiag) =>
              /\ dg'[i].objectInfo = dg'[i].passed
              /\ dg'[i].allInvalidNumInMainThread = 0
              /\ dg'[i].allInvalidNumInOtherThreads = 0
              /\ dg'[i].allAccessNumInMainThread = 0
              /\ dg'[i].allAccessNumInOtherThread = 0
              /\ dg'[i].topCacheLineDetailQueue = NoDetails]_vars

\* the diagnoses made so far
Made == {i \in DiagIds : dg[i] # NoDiag}
\* exactly one of three answers is true
ExactlyOne(x, y, z) == (x /\ ~y /\ ~z) \/ (~x /\ y /\ ~z) \/ (~x /\ ~y /\ z)

\* C23: the score depends on the two invalidation totals alone; of a < b,
\* a == b and a > b exactly one holds, a >= b holds exactly when a < b does
\* not, and < and >= are transitive; the answers a comparison gave obey the
\* same
C23_ScoreTotalOrder ==
    /\ \A i, j \in Made :
          LET a == dg[i]
              b == dg[j]
          IN  /\ (/\ a.allInvalidNumInMainThread = b.allInvalidNumInMainThread
                   /\ a.allInvalidNumInOtherThreads = b.allInvalidNumInOtherThreads)
                      => getSeriousScore(a) = getSeriousScore(b)
              /\ ExactlyOne(operatorLess(a, b), operatorEq(a, b), operatorGreater(a, b))
              /\ operatorGreaterEq(a, b) <=> ~operatorLess(a, b)
              /\ operatorLess(a, b) <=> operatorGreater(b, a)
              /\ \A k \in Made :
                    /\ (operatorLess(a, b) /\ operatorLess(b, dg[k]))
                           => operatorLess(a, dg[k])
                    /\ (operatorGreaterEq(a, b) /\ operatorGreaterEq(b, dg[k]))
                           => operatorGreaterEq(a, dg[k])
    /\ cmp # NoCmp =>
          /\ ExactlyOne(cmp.lt, cmp.eq, cmp.gt)
          /\ cmp.ge <=> ~cmp.lt

\* three diagnoses: two with different totals and the same score, a third
\* with a higher one, and a comparison of the two equal ones that answered
\* ==, >= and neither < nor >
C23_Witness ==
    \E i, j, k \in DiagIds :
        /\ dg[i] # NoDiag /\ dg[j] # NoDiag /\ dg[k] # NoDiag
        /\ dg[i].allInvalidNumInMainThread # dg[j].allInvalidNumInMainThread
        /\ operatorEq(dg[i], dg[j])
        /\ operatorLess(dg[j], dg[k])
        /\ cmp = [a |-> i, b |-> j, lt |-> FALSE, gt |-> FALSE,
                  ge |-> TRUE, eq |-> TRUE]

\* C24: run side by side on the same calls, the two maps answer alike: an
\* insertIfAbsent returns the same in both, a find returns NULL in one exactly
\* when it returns NULL in the other and leads to equal values otherwise, and
\* this holds for the find of any address the caller might make next.
C24_MapsInterchangeable ==
    /\ pr.op \in {"insertIfAbsent", "find"} => pr.multi = pr.single
    /\ \A key \in PairAddrs : multiFind(pm, key) = singleFind(ps, key)

\* a find after a remove returned NULL in both maps while the multi-fragment
\* map still holds the removed value's bytes, with another record in the next
\* fragment
C24_Witness ==
    /\ pr.op = "find" /\ pr.multi.null /\ pr.single.null
    /\ pm.startAddress[multiFragmentIndex(pr.key)] # NULL
    /\ pm.val[multiSlot(pr.key)] # 0
    /\ \E key \in PairAddrs :
        /\ multiFragmentIndex(key) # multiFragmentIndex(pr.key)
        /\ ~multiFind(pm, key).null

\* C26: once the pass is done with a function it does not exclude, a hook
\* call stands before every instruction of the function that accesses memory,
\* whatever the number of accesses in its block and whatever the object.
C26_EveryAccessHooked ==
    scan.at = "done" =>
        \A bb \in 1 .. Len(fn.blocks) : \A ix \in 1 .. Len(fn.blocks[bb]) :
            fn.blocks[bb][ix].op \in MemoryOps => <<bb, ix>> \in hooked

\* the addresses the map has a fragment for
GeoSupported == {k \in GeoKeys : geoFragmentIndex(geo, k) < MAX_FRAGMENTS}

\* C29: after initialize a slot has room for the tag and the value; the slot
\* of every address with a fragment lies inside the fragment; two addresses
\* have the same slot exactly when they lie in the same page, and the slots of
\* two pages of one fragment do not overlap.
C29_SlotGeometry ==
    geo.initialized =>
        /\ geo.blockSize >= geo.valueSize + META_DATA_SIZE
        /\ gslot.offset # -1 => gslot.offset + geo.blockSize <= geo.fragmentSize
        /\ \A k \in GeoSupported :
            geoOffset(geo, k) + geo.blockSize <= geo.fragmentSize
        /\ \A k1, k2 \in GeoSupported :
            /\ (/\ geoFragmentIndex(geo, k1) = geoFragmentIndex(geo, k2)
                /\ geoOffset(geo, k1) = geoOffset(geo, k2))
               <=> getPageIndex(k1) = getPageIndex(k2)
            /\ (/\ geoFragmentIndex(geo, k1) = geoFragmentIndex(geo, k2)
                /\ getPageIndex(k1) # getPageIndex(k2))
               => \/ geoOffset(geo, k1) + geo.blockSize <= geoOffset(geo, k2)
                  \/ geoOffset(geo, k2) + geo.blockSize <= geoOffset(geo, k1)

\* the slot looked up is the last of its fragment, of a map whose fragment
\* size was rounded above the size asked for, and ends where the fragment ends
C29_Witness ==
    /\ geo.initialized
    /\ geo.fragmentSize > geo.request
    /\ gslot.offset > 0
    /\ gslot.offset + geo.blockSize = geo.fragmentSize

\* what a find of each address would return, in both maps
PairView(m, sg) ==
    [key \in PairAddrs |-> <<multiFind(m, key), singleFind(sg, key)>>]

\* C31: called between operations, remove(key) makes find(key) return NULL and
\* changes the answer for no address of another page; a remove of a key that
\* has no record (never inserted, or its fragment not mapped) changes no
\* answer at all; and the insertIfAbsent(key, v) that comes next returns true
\* and makes find(key) return v. In both maps.
C31_RemoveThenInsert ==
    [][/\ pr'.op = "remove" =>
            /\ PairView(pm', ps')[pr'.key] = <<NullPtr, NullPtr>>
            /\ \A key \in PairAddrs :
                getPageIndex(key) # getPageIndex(pr'.key) =>
                    PairView(pm', ps')[key] = PairView(pm, ps)[key]
            /\ PairView(pm, ps)[pr'.key] = <<NullPtr, NullPtr>> =>
                    PairView(pm', ps') = PairView(pm, ps)
       /\ (/\ pr.op = "remove" /\ pr'.op = "insertIfAbsent"
           /\ getPageIndex(pr'.key) = getPageIndex(pr.key)) =>
            /\ pr'.multi.ret = "true" /\ pr'.single.ret = "true"
            /\ PairView(pm', ps')[pr'.key]
                    = <<ValuePtr(pr'.value), ValuePtr(pr'.value)>>]_vars

\* a remove has just taken a record away whose bytes the multi-fragment map
\* still holds, while the other page of that fragment keeps its record
C31_Witness ==
    /\ pr.op = "remove"
    /\ pm.startAddress[multiFragmentIndex(pr.key)] # NULL
    /\ pm.val[multiSlot(pr.key)] \in PairValues
    /\ multiFind(pm, pr.key).null /\ singleFind(ps, pr.key).null
    /\ \E key \in PairAddrs :
        /\ multiFragmentIndex(key) = multiFragmentIndex(pr.key)
        /\ getPageIndex(key) # getPageIndex(pr.key)
        /\ ~multiFind(pm, key).null

\* C35: a call of automicIncrease that has returned the sentinel -1 is one
\* whose update was not applied: no call whose compare-and-swap succeeded
\* returns -1.
C35_SentinelMeansDropped ==
    \A t \in Threads : (IncReturned(t) /\ incRet[t] = Sentinel) => ~won[t]

\* the threads waiting for or holding the lock: their acquireLock is
\* completed and their releaseLock is not
LockHolders == {t \in Threads : Acquired(t)}

\* C36: with every releaseLock following an acquireLock of its thread,
\* threadsAcquire is the number of completed acquireLock calls less the number
\* of completed releaseLock calls, under every interleaving; it is never
\* negative, and hasContention() holds exactly when more than one thread is
\* waiting for or holding the lock.
C36_LockCount ==
    /\ target = applied
    /\ target = Cardinality(LockHolders)
    /\ target >= 0
    /\ hasContention(target) <=> Cardinality(LockHolders) > 1

\* every thread has acquired, one of them after losing a compare-and-swap to
\* another, and the lock is contended
C36_Witness ==
    /\ \A t \in Threads : pc[t] = "idle" /\ Acquired(t)
    /\ \E t \in Threads : tries[t] >= 1
    /\ hasContention(target)

\* C37: the table keeps distinct keys apart: a value that find(k) leads to
\* was inserted under k, and an insertIfAbsent(k, v) is refused only for a
\* value that was inserted under k.
C37_KeysKeptApart ==
    \A t \in Threads :
        LET i == hashKey(arg[t].key) IN
        /\ (pc[t] = "h_use" /\ regValue[i] # NoObject) =>
                regValue[i].start = arg[t].key
        /\ (/\ pc[t] = "idle" /\ arg[t].hook = "hash"
            /\ arg[t].op = "insertIfAbsent" /\ rv[t] = "false"
            /\ regValue[i] # NoObject) =>
                regValue[i].start = arg[t].key

\* the sum of a number of the details a diagnosis was offered
RECURSIVE OfferedSum(_, _, _)
OfferedSum(off, S, field) ==
    IF S = {} THEN 0
    ELSE LET d == CHOOSE x \in S : TRUE
         IN  off[d] * d[field] + OfferedSum(off, S \ {d}, field)

\* C32: after any sequence of insertCacheLineDetailedInfo calls the two
\* invalidation totals of a diagnosis are the sums of the two invalidation
\* numbers over every detail passed in, kept by the queue or not.
C32_InvalidationTotals ==
    \A i \in Made :
        /\ dg[i].allInvalidNumInMainThread = OfferedSum(dg[i].offered, Details, "first")
        /\ dg[i].allInvalidNumInOtherThreads = OfferedSum(dg[i].offered, Details, "other")

\* the queue has refused a detail, and has displaced or refused another
\* before: more details were counted than it holds
C32_Witness ==
    /\ dg[QueueDiag] # NoDiag
    /\ dg[QueueDiag].ret = "false"
    /\ getSize(dg[QueueDiag].offered) = MaxOffers
    /\ getSize(dg[QueueDiag].topCacheLineDetailQueue) = MAX_TOP_CACHELINE_DETAIL_INFO
    /\ dg[QueueDiag].allInvalidNumInMainThread > 0
    /\ dg[QueueDiag].allInvalidNumInOtherThreads > 0

\* C33: a diagnosis reports the accesses of its object by the first-touch
\* thread and by the other threads: its two access totals are the sums over
\* the cache lines whose details it was given.
C33_AccessTotals ==
    \A i \in Made :
        /\ dg[i].allAccessNumInMainThread
                = OfferedSum(dg[i].offered, Details, "accessFirst")
        /\ dg[i].allAccessNumInOtherThread
                = OfferedSum(dg[i].offered, Details, "accessOther")

\* C34: the queue of a diagnosis never holds more than
\* MAX_TOP_CACHELINE_DETAIL_INFO details; it holds details that were offered,
\* all of them while there is room, and no detail left out scores higher than
\* one it holds; an offer is refused only by a full queue none of whose
\* entries scores lower.
C34_TopK ==
    \A i \in Made :
        LET q == dg[i].topCacheLineDetailQueue
            off == dg[i].offered
        IN  /\ getSize(q) <= MAX_TOP_CACHELINE_DETAIL_INFO
            /\ \A d \in Details : q[d] <= off[d]
            /\ getSize(q) < MAX_TOP_CACHELINE_DETAIL_INFO => q = off
            /\ \A d, k \in Details :
                  (off[d] > q[d] /\ q[k] > 0) => detailScore(d) <= detailScore(k)
            /\ dg[i].ret = "false" =>
                  /\ getSize(q) = MAX_TOP_CACHELINE_DETAIL_INFO
                  /\ \E d \in Details :
                        /\ off[d] > q[d]
                        /\ \A k \in Details : q[k] > 0 => detailScore(d) <= detailScore(k)

\* the full queue holds two details of the highest score, having displaced a
\* lower one, and the last offer displaced an entry
C34_Witness ==
    LET q == dg[QueueDiag].topCacheLineDetailQueue IN
    /\ dg[QueueDiag] # NoDiag
    /\ dg[QueueDiag].ret = "true"
    /\ getSize(dg[QueueDiag].offered) > MAX_TOP_CACHELINE_DETAIL_INFO
    /\ q[Detail(1, 1, 2, 2)] = MAX_TOP_CACHELINE_DETAIL_INFO
    /\ dg[QueueDiag].offered[Detail(1, 0, 1, 2)] > 0

\* the size in bytes a hook is named after: the size of the access when it is
\* 1, 2, 4, 8 or 16 and the alignment is none given, that of the shadow
\* granule, or that of the size; 1 otherwise
HookBytes(I) ==
    LET bytes == I.typeSize \div 8
        al == IF I.op \in {"load", "store"} THEN I.alignment ELSE 0
    IN  IF bytes \in {1, 2, 4, 8, 16} /\ (al = 0 \/ al >= Granularity \/ al >= bytes)
        THEN bytes ELSE 1
HookName(I) ==
    (IF I.op = "load" THEN "load_" ELSE "store_") \o ToString(HookBytes(I)) \o "bytes"

\* C38: when the pass is done with a function, every access it instrumented
\* has exactly one call inserted before it, to load_<N>bytes for a load and
\* store_<N>bytes for a store, atomicrmw or cmpxchg, with the accessed address
\* as its only argument, N being the size in bytes if it is 1, 2, 4, 8 or 16
\* and the alignment suffices, and 1 otherwise; no other call is inserted, and
\* none at all in a function whose name begins with load_ or store_.
C38_OneHookPerAccess ==
    scan.at \in {"done", "excluded"} =>
        /\ \A pos \in hooked :
              \E k \in 1 .. Len(calls) :
                  /\ calls[k].before = pos
                  /\ calls[k].callee = HookName(InstAt(pos))
                  /\ calls[k].args = <<[pointerOperandOf |-> pos]>>
                  /\ \A j \in 1 .. Len(calls) : calls[j].before = pos => j = k
        /\ \A k \in 1 .. Len(calls) : calls[k].before \in hooked
        /\ (startswith(fn.name, "load_") \/ startswith(fn.name, "store_"))
              => calls = <<>> /\ hooked = {}

\* a 16-byte compare-exchange got store_16bytes and the store after it
\* store_4bytes
C38_Witness ==
    /\ scan.at = "done"
    /\ Len(calls) = 2
    /\ InstAt(<<1, 1>>).op = "cmpxchg"
    /\ InstAt(<<1, 1>>).alignment = 1
    /\ calls[1].callee = "store_16bytes"
    /\ calls[2].callee = "store_4bytes"

\* the calls of a history that stop the threads
Stops(h) == {k \in 1 .. Len(h) : h[k].op \in {"join", "cancel"}}

\* C39: a pool returned by tpool_create is RUNNING with nthreads threads
\* started; a join or cancel leaves it READY when it returns 0 and ERROR when
\* it returns -1; a pool is destroyed only after a join or cancel, and no
\* join or cancel follows an earlier one.
C39_PoolLifecycle ==
    /\ (created.ret = "pool" /\ Len(hist) = 1) =>
          /\ pool.state = "RUNNING"
          /\ pool.nthreads = created.nthreads
          /\ Cardinality(created.started) = created.nthreads
          /\ Range(pool.threads) = created.started
    /\ (pool # NoPool /\ Len(hist) > 1 /\ Len(hist) \in Stops(hist)) =>
          pool.state = IF hist[Len(hist)].ret = 0 THEN "READY" ELSE "ERROR"
    /\ Cardinality(Stops(hist)) <= 1
    /\ pool # NoPool => (pool.state = "RUNNING" <=> Stops(hist) = {})
    /\ \A k \in 1 .. Len(hist) :
          hist[k].op = "destroy" => \E j \in Stops(hist) : j < k

\* a pool of two threads was cancelled with an error, then destroyed
C39_Witness ==
    /\ Len(hist) = 3
    /\ hist[2] = [op |-> "cancel", ret |-> -1]
    /\ hist[3].op = "destroy"
    /\ created.nthreads = MaxPoolThreads
    /\ pool = NoPool

\* C40: when tpool_create has returned NULL, no thread it started is running
\* and nothing it allocated is still allocated; with invalid arguments it
\* started no thread.
C40_FailedCreateLeavesNothing ==
    created.ret = "NULL" =>
        /\ \A id \in created.started : thr[id] # "running"
        /\ created.allocated = {}
        /\ (created.opts = "NULL" \/ created.nthreads < 1 \/ created.nullRoutineAt # 0)
              => created.started = {}

Spec == SpecMap
====
